---- MODULE Spec2Model ----
(***************************************************************************)
(* Model of the vimix processor service: the job manager                   *)
(* (app/services/job_manager.py), the HTTP job surface                     *)
(* (app/routers/jobs.py) and the reaper (app/main.py).                     *)
(*                                                                         *)
(* Conventions.                                                            *)
(*  - Job ids are the integers 1, 2, ... in creation order (uuid4 values   *)
(*    are pairwise distinct); a Python dict iterates in insertion order,   *)
(*    which is the order of the ids.                                       *)
(*  - A progress value is a number of hundredths of a percent, so that     *)
(*    round(progress, 1) is a real conversion: 10% is 1000, 36.67% is 3667.*)
(*  - heap holds every Job object ever constructed; _jobs is the key set   *)
(*    of JobManager._jobs.  A Job object outlives its dict entry for as    *)
(*    long as a stream closure refers to it.                               *)
(*  - A sink (asyncio.Queue) is named by the stream that created it.       *)
(***************************************************************************)
EXTENDS Integers, Sequences, FiniteSets, TLC

VARIABLES
    heap,       \* Job objects: id -> Job record (fields of the dataclass)
    _jobs,      \* JobManager._jobs: the ids that have a dict entry
    _batches,   \* JobManager._batches: batch id -> Batch record
    queues,     \* asyncio.Queue contents: sink -> sequence of events
    tasks,      \* _run_job tasks: id -> position of the task and of its processor
    streams,    \* SSE requests: sink -> handler / generator position and output
    files,      \* on-disk layout: ids with an uploads/<id> and a jobs/<id> directory
    now,        \* the UTC clock, in seconds
    ticks,      \* number of clock advances so far
    pools,      \* the processors' thread pools: work queued and work running
    validated,  \* a call of _validate_options: its arguments and its outcome
    oauth,      \* the OAuth callback listener (app/routers/oauth.py)
    poll,       \* a call of the MCP client's _poll_job (services/mcp/server.py)
    handlers    \* POST /jobs/batch handlers past their checks: position and jobs created

vars == <<heap, _jobs, _batches, queues, tasks, streams, files, now, ticks, pools,
          validated, oauth, poll, handlers>>

----------------------------------------------------------------------------
(* Bounds of the model *)

MaxJobs == 2
MaxStreams == 2
MaxTicks == 1
MaxFiles == 2
MaxFrames == 3
\* pool items that raise in one run
MaxFailures == 1
MaxHandlers == 2

(* Program constants *)

CLEANUP_MAX_AGE == 3600

PENDING == "pending"
PROCESSING == "processing"
COMPLETED == "completed"
FAILED == "failed"

None == "<None>"

Terminal == {COMPLETED, FAILED}

----------------------------------------------------------------------------
(* Small helpers *)

Range(s) == {s[i] : i \in DOMAIN s}

Pct(n) == n * 100

\* round(x, 1) on hundredths p of a percent, 0 <= p < 12800, where x is the
\* binary double nearest to p / 100.  round() rounds the double's exact value,
\* so x.x5 is a true tie (to the even tenth) only where the double is exact,
\* at .25 and .75; every other x.x5 goes the way its double lies, which
\* depends on the double's exponent: the fractions listed are those whose
\* double lies at or above the tie and is rounded up (0.05 -> 0.1,
\* 0.15 -> 0.1, 0.35 -> 0.3, 36.15 -> 36.1, 36.45 -> 36.5).
Round1(p) ==
    LET r == p % 10
        b == p - r
        f == p % 100
        up == IF p < 100 THEN f \in {5, 45, 55, 65, 75}
              ELSE IF p < 200 THEN f \in {5, 35, 55, 75, 85}
              ELSE IF p < 400 THEN f \in {35, 45, 75, 85, 95}
              ELSE IF p < 800 THEN f \in {15, 45, 65, 75, 95}
              ELSE IF p < 1600 THEN f \in {5, 15, 55, 65, 75}
              ELSE IF p < 3200 THEN f \in {5, 35, 55, 75, 85}
              ELSE IF p < 6400 THEN f \in {35, 45, 75, 85, 95}
              ELSE f \in {15, 45, 65, 75, 95}
    IN  IF r < 5 THEN b
        ELSE IF r > 5 THEN b + 10
        ELSE IF up THEN b + 10 ELSE b

\* no call of _validate_options is being followed
NotValidated == [pc |-> "none"]

\* the OAuth router is not in use: no flow registered, no listener task
NoOauth == [pc |-> "none"]

\* no call of _poll_job is being followed
NotPolling == [pc |-> "none"]

----------------------------------------------------------------------------
(* Processor registry (app/processors/registry.py) and three of its        *)
(* processors.  declares_multiple: the class defines accepts_multiple_files *)
(* (BaseProcessor does not, so reading it elsewhere raises AttributeError). *)
(* accepts_multiple_files is read only where declares_multiple holds.       *)
(* takes_input_paths: process() has the fifth parameter _run_job passes.    *)
(* script: the on_progress calls of process(), in order.                    *)

VideoToGifProcessor ==
    [ accepted_extensions |-> {".mp4", ".mov", ".webm", ".avi", ".mkv"},
      declares_multiple   |-> FALSE,
      accepts_multiple_files |-> FALSE,
      takes_input_paths   |-> TRUE,
      options_schema      |-> << [id |-> "start", type |-> "number"],
                                 [id |-> "resolution", type |-> "dimension",
                                  min |-> 16, max |-> 7680, allow_original |-> TRUE] >>,
      script              |-> << [pct |-> Pct(10),  msg |-> "Generating color palette..."],
                                 [pct |-> Pct(50),  msg |-> "Creating GIF..."],
                                 [pct |-> Pct(100), msg |-> "Done!"] >>,
      output              |-> "output.gif" ]

PdfMergeProcessor ==
    [ accepted_extensions |-> {".pdf"},
      declares_multiple   |-> TRUE,
      accepts_multiple_files |-> TRUE,
      takes_input_paths   |-> TRUE,
      options_schema      |-> << >>,
      script              |-> << [pct |-> Pct(10),  msg |-> "Merging PDFs..."],
                                 [pct |-> Pct(100), msg |-> "Done!"] >>,
      output              |-> "output.pdf" ]

ImageConvertProcessor ==
    [ accepted_extensions |-> {".png", ".jpg", ".jpeg", ".webp", ".bmp", ".tiff", ".gif"},
      declares_multiple   |-> FALSE,
      accepts_multiple_files |-> FALSE,
      takes_input_paths   |-> FALSE,
      options_schema      |-> << [id |-> "format", type |-> "select"],
                                 [id |-> "resize", type |-> "dimension",
                                  min |-> 16, max |-> 7680, allow_original |-> TRUE] >>,
      script              |-> << [pct |-> Pct(20),  msg |-> "Converting image..."],
                                 [pct |-> Pct(100), msg |-> "Done!"] >>,
      output              |-> "output.png" ]

_PROCESSORS ==
    ("video-to-gif" :> VideoToGifProcessor) @@
    ("pdf-merge" :> PdfMergeProcessor) @@
    ("image-convert" :> ImageConvertProcessor)

\* get_processor raises KeyError exactly when this is FALSE.
Registered(processor_id) == processor_id \in DOMAIN _PROCESSORS

get_processor(processor_id) == _PROCESSORS[processor_id]

\* list_processors reads p.accepts_multiple_files of every registered
\* processor; GET /processors answers 500 when one of the reads raises
get_processors_code ==
    IF \A p \in DOMAIN _PROCESSORS : _PROCESSORS[p].declares_multiple THEN 200 ELSE 500

----------------------------------------------------------------------------
(* Job manager (app/services/job_manager.py) *)

\* Job(id=..., processor_id=..., original_filename=...) with the dataclass defaults
Job(processor_id, original_filename, created_at) ==
    [ processor_id      |-> processor_id,
      original_filename |-> original_filename,
      status            |-> PENDING,
      progress          |-> 0,
      message           |-> "",
      result_path       |-> None,
      error             |-> None,
      created_at        |-> created_at,
      _listeners        |-> << >> ]

\* Path(result_path).suffix.lower() for the output names of the registry
Suffix(path) ==
    IF path = None THEN ""
    ELSE CASE \E j \in 1..MaxJobs + 1 : path = "jobs/" \o ToString(j) \o "/output.gif" -> ".gif"
           [] \E j \in 1..MaxJobs + 1 : path = "jobs/" \o ToString(j) \o "/output.pdf" -> ".pdf"
           [] OTHER -> ".png"

to_dict(id, job) ==
    [ id                |-> id,
      processor_id      |-> job.processor_id,
      original_filename |-> job.original_filename,
      status            |-> job.status,
      progress          |-> Round1(job.progress),
      message           |-> job.message,
      result_extension  |-> Suffix(job.result_path),
      error             |-> job.error,
      created_at        |-> job.created_at ]

\* asyncio.Queue(): maxsize 0, which stands for no bound
QueueMaxSize == 0

\* a sink that holds one event is full
QueueFull_at_one(q) == Len(q) >= 1

\* asyncio.Queue.full(): put waits while this holds
QueueFull(q) == QueueMaxSize > 0 /\ Len(q) >= QueueMaxSize

\* some put of a loop over the listeners would wait
PutWaits(qs, listeners) == \E q \in Range(listeners) : QueueFull(qs[q])

\* for q in listeners: await q.put(event)  (an unbounded queue: put never waits)
RECURSIVE PutAll(_, _, _)
PutAll(qs, listeners, event) ==
    IF listeners = << >> THEN qs
    ELSE PutAll([qs EXCEPT ![Head(listeners)] = Append(@, event)], Tail(listeners), event)

\* the event update_progress builds from the job it has just updated
ProgressEvent(job, progress, message) ==
    [progress |-> Round1(progress), message |-> message, status |-> job.status]

\* update_progress that leaves the loop after the first listener
update_progress_first_listener_only(h, ids, qs, job_id, progress, message) ==
    IF job_id \notin ids THEN [heap |-> h, queues |-> qs]
    ELSE LET h2 == [h EXCEPT ![job_id].progress = progress, ![job_id].message = message]
         IN  [ heap   |-> h2,
               queues |-> PutAll(qs,
                                 IF h2[job_id]._listeners = << >> THEN << >>
                                 ELSE << Head(h2[job_id]._listeners) >>,
                                 ProgressEvent(h2[job_id], progress, message)) ]

\* update_progress that builds the event before it assigns the new progress
update_progress_stale_event(h, ids, qs, job_id, progress, message) ==
    IF job_id \notin ids THEN [heap |-> h, queues |-> qs]
    ELSE [ heap   |-> [h EXCEPT ![job_id].progress = progress, ![job_id].message = message],
           queues |-> PutAll(qs, h[job_id]._listeners,
                             ProgressEvent(h[job_id], h[job_id].progress, message)) ]

\* update_progress: the new (heap, queues); a no-op for an id without entry
update_progress(h, ids, qs, job_id, progress, message) ==
    IF job_id \notin ids THEN [heap |-> h, queues |-> qs]
    ELSE LET h2 == [h EXCEPT ![job_id].progress = progress, ![job_id].message = message]
         IN  [ heap   |-> h2,
               queues |-> PutAll(qs, h2[job_id]._listeners,
                                 ProgressEvent(h2[job_id], progress, message)) ]

\* mark_completed that forgets to record the result path
mark_completed_no_result(h, job_id, result_path) ==
    [h EXCEPT ![job_id].status = COMPLETED,
              ![job_id].progress = Pct(100),
              ![job_id].message = "Done!"]

mark_completed(h, job_id, result_path) ==
    [h EXCEPT ![job_id].status = COMPLETED,
              ![job_id].progress = Pct(100),
              ![job_id].message = "Done!",
              ![job_id].result_path = result_path]

\* mark_failed that records the message but not the error
mark_failed_no_error(h, job_id, error) ==
    [h EXCEPT ![job_id].status = FAILED,
              ![job_id].message = "Error: " \o error]

\* mark_failed that also clears the progress
mark_failed_resets_progress(h, job_id, error) ==
    [h EXCEPT ![job_id].status = FAILED,
              ![job_id].progress = 0,
              ![job_id].error = error,
              ![job_id].message = "Error: " \o error]

mark_failed(h, job_id, error) ==
    [h EXCEPT ![job_id].status = FAILED,
              ![job_id].error = error,
              ![job_id].message = "Error: " \o error]

\* subscribe appends the new queue q to the job's listener list
subscribe(h, job_id, q) ==
    [h EXCEPT ![job_id]._listeners = Append(@, q)]

\* list.remove(q): drops the first occurrence
RECURSIVE ListRemove(_, _)
ListRemove(list, x) ==
    IF list = << >> THEN << >>
    ELSE IF Head(list) = x THEN Tail(list)
    ELSE << Head(list) >> \o ListRemove(Tail(list), x)

\* looks the job up among all the Job objects, not in the table
unsubscribe_ignores_table(h, ids, job_id, q) ==
    IF job_id \in DOMAIN h /\ q \in Range(h[job_id]._listeners)
    THEN [h EXCEPT ![job_id]._listeners = ListRemove(@, q)]
    ELSE h

\* job = self._jobs.get(job_id); if job and q in job._listeners: remove
unsubscribe(h, ids, job_id, q) ==
    IF job_id \in ids /\ q \in Range(h[job_id]._listeners)
    THEN [h EXCEPT ![job_id]._listeners = ListRemove(@, q)]
    ELSE h

\* collect_expired: walks the dict in insertion order and appends the ids of
\* the finished jobs created more than max_age_seconds ago
RECURSIVE CollectFrom(_, _, _, _, _)
CollectFrom(h, ids, id, t, max_age_seconds) ==
    IF id > Cardinality(DOMAIN h) THEN << >>
    ELSE LET rest == CollectFrom(h, ids, id + 1, t, max_age_seconds)
         IN  IF id \notin ids THEN rest
             ELSE IF h[id].status \notin {COMPLETED, FAILED} THEN rest
             ELSE IF t - h[id].created_at > max_age_seconds THEN << id >> \o rest
             ELSE rest

\* collect_expired without the check of the status
collect_expired_any_status(h, ids, t, max_age_seconds) ==
    CollectFrom([j \in DOMAIN h |-> [h[j] EXCEPT !.status = COMPLETED]],
                ids, 1, t, max_age_seconds)

collect_expired(h, ids, t, max_age_seconds) == CollectFrom(h, ids, 1, t, max_age_seconds)

\* remove_job: pops the job, drops the id from every batch, deletes empty batches
\* remove_job that strips the batches but leaves the job in the table
remove_job_keeps_record(ids, bs, job_id) ==
    LET stripped == [b \in DOMAIN bs |->
                        [bs[b] EXCEPT !.job_ids = ListRemove(@, job_id)]]
        kept == {b \in DOMAIN bs : stripped[b].job_ids # << >>}
    IN  [ _jobs    |-> ids,
          _batches |-> [b \in kept |-> stripped[b]] ]

remove_job(ids, bs, job_id) ==
    LET stripped == [b \in DOMAIN bs |->
                        [bs[b] EXCEPT !.job_ids = ListRemove(@, job_id)]]
        kept == {b \in DOMAIN bs : stripped[b].job_ids # << >>}
    IN  [ _jobs    |-> ids \ {job_id},
          _batches |-> [b \in kept |-> stripped[b]] ]

\* cleanup_job (app/services/file_manager.py): removes both directories if present
\* cleanup_job that removes the working directory only
cleanup_job_keeps_uploads(fs, job_id) ==
    [uploads |-> fs.uploads, jobs |-> fs.jobs \ {job_id}]

cleanup_job(fs, job_id) ==
    [uploads |-> fs.uploads \ {job_id}, jobs |-> fs.jobs \ {job_id}]

----------------------------------------------------------------------------
(* Submission inputs.  A filename is the sequence of its dot-separated      *)
(* parts ("clip.MP4" is <<"clip", "MP4">>); the empty sequence is a missing *)
(* filename.  An options form field is absent, the empty string, a string   *)
(* that is not JSON, or a JSON object (a function from option ids to        *)
(* values; a value is a JSON number or a JSON string).                      *)

FileNames == { << "clip", "MP4" >>, << "a", "pdf" >>, << "photo", "png" >>, << >> }

Lower(part) ==
    CASE part = "MP4" -> "mp4"
      [] part = "PDF" -> "pdf"
      [] OTHER -> part

\* "." + (filename or "file").rsplit(".", 1)[-1].lower()
Ext(filename) ==
    LET name == IF filename = << >> THEN << "file" >> ELSE filename
    IN  "." \o Lower(name[Len(name)])

\* file.filename or "upload"
NameOrUpload(filename) == IF filename = << >> THEN << "upload" >> ELSE filename

\* json.loads raises JSONDecodeError exactly when this is FALSE
OptionsDecode(options) == options.kind # "malformed"

\* parsed_options: {} unless the field is a non-empty string
ParsedOptions(options) ==
    IF options.kind # "json" THEN << >> ELSE options.dict

\* A JSON value is [t, v] with t one of "int", "str", "float", "bool",
\* "null".  The strings int() reads as an integer, with what it returns:
\* it strips surrounding whitespace and takes a sign and single underscores.
IntTexts ==
    ("480" :> 480) @@ ("8" :> 8) @@ (" 480 " :> 480) @@ ("4_80" :> 480) @@ ("-480" :> 0 - 480)

\* int(str(value)) returns: str() of a float has a "." or an exponent, of a
\* bool is "True" or "False", and int() reads neither
IsIntText(value) == value.t = "int" \/ (value.t = "str" /\ value.v \in DOMAIN IntTexts)

IntOf(value) == IF value.t = "int" THEN value.v ELSE IntTexts[value.v]

\* opt.get(key, default)
OptGet(opt, key, default) == IF key \in DOMAIN opt THEN opt[key] ELSE default

\* _validate_options that takes any integer text, whatever the range
RECURSIVE _validate_options_no_range(_, _)
_validate_options_no_range(schema, options) ==
    IF schema = << >> THEN TRUE
    ELSE LET opt == Head(schema)
             rest == _validate_options_no_range(Tail(schema), options)
         IN  IF opt.type # "dimension" THEN rest
             ELSE IF opt.id \notin DOMAIN options THEN rest
             ELSE LET value == options[opt.id]
                  IN  IF value.t = "null" THEN rest
                      ELSE IF value.t = "str" /\ value.v = "original"
                              /\ OptGet(opt, "allow_original", FALSE)
                      THEN rest
                      ELSE IF ~IsIntText(value) THEN FALSE
                      ELSE rest

\* _validate_options: TRUE when no HTTPException is raised.  options.get
\* gives None for a missing key and for a JSON null alike.
RECURSIVE _validate_options(_, _)
_validate_options(schema, options) ==
    IF schema = << >> THEN TRUE
    ELSE LET opt == Head(schema)
             rest == _validate_options(Tail(schema), options)
         IN  IF opt.type # "dimension" THEN rest
             ELSE IF opt.id \notin DOMAIN options THEN rest
             ELSE LET value == options[opt.id]
                  IN  IF value.t = "null" THEN rest
                      ELSE IF value.t = "str" /\ value.v = "original"
                              /\ OptGet(opt, "allow_original", FALSE)
                      THEN rest
                      ELSE IF ~IsIntText(value) THEN FALSE
                      ELSE IF IntOf(value) < OptGet(opt, "min", 1)
                              \/ IntOf(value) > OptGet(opt, "max", 99999) THEN FALSE
                      ELSE rest

\* some values of the options form field
NoOptions == [kind |-> "none"]

EmptyOptions == [kind |-> "empty"]

MalformedOptions == [kind |-> "malformed"]

Dimension(id, value) == [kind |-> "json", dict |-> (id :> value)]

\* POST /jobs: the form fields, and whether file.read() and save_upload
\* succeed.  One accepted request per processor, and the ways a request for
\* video-to-gif can go wrong.
JobRequest(processor_id, filename, options, read_ok, save_ok) ==
    [ processor_id |-> processor_id, filename |-> filename, options |-> options,
      read_ok |-> read_ok, save_ok |-> save_ok ]

GifRequest == JobRequest("video-to-gif", << "clip", "MP4" >>, NoOptions, TRUE, TRUE)

JobRequests ==
    { GifRequest,
      JobRequest("image-convert", << "photo", "png" >>, EmptyOptions, TRUE, TRUE),
      JobRequest("video-to-gif", << "clip", "MP4" >>,
                 Dimension("resolution", [t |-> "str", v |-> "original"]), TRUE, TRUE),
      JobRequest("video-to-gif", << "clip", "MP4" >>,
                 Dimension("resolution", [t |-> "int", v |-> 480]), TRUE, TRUE),
      JobRequest("nope", << "clip", "MP4" >>, NoOptions, TRUE, TRUE),
      JobRequest("video-to-gif", << "a", "pdf" >>, NoOptions, TRUE, TRUE),
      JobRequest("video-to-gif", << >>, NoOptions, TRUE, TRUE),
      JobRequest("video-to-gif", << "clip", "MP4" >>, MalformedOptions, TRUE, TRUE),
      JobRequest("video-to-gif", << "clip", "MP4" >>,
                 Dimension("resolution", [t |-> "int", v |-> 8]), TRUE, TRUE),
      JobRequest("video-to-gif", << "clip", "MP4" >>,
                 Dimension("resolution", [t |-> "str", v |-> "wide"]), TRUE, TRUE),
      JobRequest("video-to-gif", << "clip", "MP4" >>, NoOptions, FALSE, TRUE),
      JobRequest("video-to-gif", << "clip", "MP4" >>, NoOptions, TRUE, FALSE) }

\* POST /jobs/batch: fail = 0 when every read and save succeeds, else the
\* index of the file whose read (fail_at = "read") or save fails
BatchRequest(processor_id, filenames, options, fail, fail_at) ==
    [ processor_id |-> processor_id, filenames |-> filenames, options |-> options,
      fail |-> fail, fail_at |-> fail_at ]

Pdfs(n) == [i \in 1..n |-> << "a", "pdf" >>]

BatchRequests ==
    { BatchRequest("pdf-merge", Pdfs(n), NoOptions, 0, "read") : n \in 0..MaxFiles }
    \cup { BatchRequest("pdf-merge", Pdfs(MaxFiles), NoOptions, k, at) :
             k \in 1..MaxFiles, at \in {"read", "save"} }
    \cup { BatchRequest("pdf-merge", [Pdfs(MaxFiles) EXCEPT ![MaxFiles] = << "photo", "png" >>],
                        NoOptions, 0, "read"),
           BatchRequest("pdf-merge", [Pdfs(MaxFiles) EXCEPT ![MaxFiles] = << "b", "pdf" >>],
                        NoOptions, 0, "read"),
           BatchRequest("pdf-merge", Pdfs(MaxFiles), MalformedOptions, 0, "read"),
           BatchRequest("nope", Pdfs(MaxFiles), NoOptions, 0, "read"),
           BatchRequest("video-to-gif", [i \in 1..MaxFiles |-> << "clip", "MP4" >>],
                        NoOptions, 0, "read"),
           BatchRequest("image-convert", [i \in 1..MaxFiles |-> << "photo", "png" >>],
                        NoOptions, 0, "read"),
           BatchRequest("video-to-gif", [i \in 1..MaxFiles |-> << "clip", "MP4" >>],
                        Dimension("resolution", [t |-> "int", v |-> 8]), 0, "read") }

----------------------------------------------------------------------------
(* HTTP job surface (app/routers/jobs.py): submission *)

NextId == Cardinality(DOMAIN heap) + 1

\* the status code create_job answers with
create_job_code(r) ==
    IF ~Registered(r.processor_id) THEN 400
    ELSE LET processor == get_processor(r.processor_id)
         IN  IF Ext(r.filename) \notin processor.accepted_extensions THEN 400
             ELSE IF ~OptionsDecode(r.options) THEN 400
             ELSE IF ~_validate_options(processor.options_schema, ParsedOptions(r.options))
                  THEN 400
             ELSE IF ~r.read_ok \/ ~r.save_ok THEN 500
             ELSE 200

\* the handler got as far as job_manager.create
create_job_creates(r) ==
    create_job_code(r) = 200 \/ (create_job_code(r) = 500 /\ r.read_ok)

NoTask == [pc |-> "none", calls |-> << >>, raised |-> None]

\* save_upload (app/services/file_manager.py): writes the data to
\* uploads/<job_id>/<filename> and returns that path
save_upload(job_id, filename) == [dir |-> job_id, name |-> filename]

\* what the path holds once the handler has saved the uploads one after the
\* other: write_bytes replaces the content, so the last upload saved there
Written(job_id, filenames, path) ==
    CHOOSE i \in DOMAIN filenames :
        /\ save_upload(job_id, NameOrUpload(filenames[i])) = path
        /\ \A k \in DOMAIN filenames :
              k > i => save_upload(job_id, NameOrUpload(filenames[k])) # path

\* create_task that hands the task the first path only
Spawned_first_path_only(input_path, input_paths) ==
    [pc |-> "spawned", calls |-> << >>, raised |-> None,
     input_path |-> input_path, input_paths |-> << input_path >>]

\* asyncio.create_task(_run_job(job.id, processor_id, input_path, output_dir,
\* parsed_options[, input_paths])): the task with the paths it was given
Spawned(input_path, input_paths) ==
    [pc |-> "spawned", calls |-> << >>, raised |-> None,
     input_path |-> input_path, input_paths |-> input_paths]

\* create_job whose task runs up to its first await before the handler
\* takes the snapshot (as under an eager task factory)
create_job_runs_task_first(r) ==
    /\ IF create_job_creates(r)
       THEN /\ NextId <= MaxJobs
            /\ _jobs' = _jobs \cup {NextId}
            /\ IF r.save_ok
               THEN /\ heap' = heap @@ (NextId :>
                           [Job(r.processor_id, NameOrUpload(r.filename), now)
                               EXCEPT !.status = PROCESSING])
                    /\ files' = [uploads |-> files.uploads \cup {NextId},
                                 jobs    |-> files.jobs \cup {NextId}]
                    /\ tasks' = tasks @@ (NextId :>
                           [Spawned(save_upload(NextId, NameOrUpload(r.filename)), None)
                               EXCEPT !.pc = "running"])
               ELSE /\ heap' = heap @@ (NextId :>
                           Job(r.processor_id, NameOrUpload(r.filename), now))
                    /\ files' = [files EXCEPT !.uploads = @ \cup {NextId}]
                    /\ tasks' = tasks @@ (NextId :> NoTask)
       ELSE UNCHANGED <<heap, _jobs, files, tasks>>
    /\ UNCHANGED <<_batches, queues, streams, now, ticks, pools, validated, oauth, poll, handlers>>

\* POST /jobs, from the return of its one await (file.read(), which comes
\* after the checks and before anything is created).  Between
\* job_manager.create and return job.to_dict() the handler has no await, so
\* the task it creates has not started when the snapshot is taken: the
\* response is to_dict of the job as this step leaves it.
create_job(r) ==
    /\ IF create_job_creates(r)
       THEN /\ NextId <= MaxJobs
            /\ heap' = heap @@ (NextId :> Job(r.processor_id, NameOrUpload(r.filename), now))
            /\ _jobs' = _jobs \cup {NextId}
            /\ IF r.save_ok
               THEN /\ files' = [uploads |-> files.uploads \cup {NextId},
                                 jobs    |-> files.jobs \cup {NextId}]
                    /\ tasks' = tasks @@ (NextId :>
                           Spawned(save_upload(NextId, NameOrUpload(r.filename)), None))
               ELSE /\ files' = [files EXCEPT !.uploads = @ \cup {NextId}]
                    /\ tasks' = tasks @@ (NextId :> NoTask)
       ELSE UNCHANGED <<heap, _jobs, files, tasks>>
    /\ UNCHANGED <<_batches, queues, streams, now, ticks, pools, validated, oauth, poll, handlers>>

\* the status code create_batch answers with: 400 from its checks, 500 when
\* accepts_multiple_files cannot be read (AttributeError), when a read or a
\* save fails, or when the one-job branch finds no first path for its task
\* (input_paths[0] of an empty list, IndexError)
create_batch_code(r) ==
    IF ~Registered(r.processor_id) THEN 400
    ELSE LET processor == get_processor(r.processor_id)
         IN  IF ~OptionsDecode(r.options) THEN 400
             ELSE IF ~_validate_options(processor.options_schema, ParsedOptions(r.options))
                  THEN 400
             ELSE IF \E i \in DOMAIN r.filenames :
                        Ext(r.filenames[i]) \notin processor.accepted_extensions THEN 400
             ELSE IF ~processor.declares_multiple THEN 500
             ELSE IF r.fail # 0 THEN 500
             ELSE IF processor.accepts_multiple_files /\ Len(r.filenames) = 0 THEN 500
             ELSE 200

\* create_batch reached its dispatch (every check passed and the attribute
\* accepts_multiple_files could be read)
create_batch_dispatches(r) ==
    /\ create_batch_code(r) \in {200, 500}
    /\ get_processor(r.processor_id).declares_multiple

\* uuid.uuid4().hex[:12] for a batch: an id no batch of the table has
NextBatchId(bs) ==
    CHOOSE b \in 1 .. Cardinality(DOMAIN bs) + 1 :
        b \notin DOMAIN bs /\ \A c \in 1 .. b - 1 : c \in DOMAIN bs

\* JobManager.create_batch
JobManager_create_batch(bs, processor_id, job_ids, created_at) ==
    bs @@ (NextBatchId(bs) :> [job_ids |-> job_ids, processor_id |-> processor_id,
                               created_at |-> created_at])

NextHandler == Cardinality(DOMAIN handlers) + 1

\* POST /jobs/batch from the call to the first `await f.read()`: the checks
\* and, in the one-job branch, job_manager.create and get_job_dir.  A request
\* that fails a check is answered at once and changes nothing.  With no
\* file there is no read: the one-job branch raises at input_paths[0] with
\* its job created, the fan-out loop is skipped and the batch is created
\* empty.  handlers[h] is a handler that has dispatched: r its request, pc
\* "reading" while it is suspended in `await f.read()` of file i and "done"
\* when it has answered, created the ids of the jobs it has created so far
\* (job_ids in the fan-out loop).
create_batch(r) ==
    /\ IF ~create_batch_dispatches(r)
       THEN UNCHANGED <<heap, _jobs, _batches, files, tasks, handlers>>
       ELSE /\ NextHandler <= MaxHandlers
            /\ IF get_processor(r.processor_id).accepts_multiple_files
               THEN /\ NextId <= MaxJobs
                    /\ heap' = heap @@ (NextId :>
                           Job(r.processor_id,
                               << ToString(Len(r.filenames)) \o "_files" >>, now))
                    /\ _jobs' = _jobs \cup {NextId}
                    /\ files' = [files EXCEPT !.jobs = @ \cup {NextId}]
                    /\ tasks' = tasks @@ (NextId :> NoTask)
                    /\ handlers' = handlers @@ (NextHandler :>
                           [ r |-> r, i |-> 1, created |-> << NextId >>,
                             pc |-> IF Len(r.filenames) = 0 THEN "done" ELSE "reading" ])
                    /\ UNCHANGED _batches
               ELSE /\ handlers' = handlers @@ (NextHandler :>
                           [ r |-> r, i |-> 1, created |-> << >>,
                             pc |-> IF Len(r.filenames) = 0 THEN "done" ELSE "reading" ])
                    /\ _batches' = IF Len(r.filenames) = 0
                                   THEN JobManager_create_batch(_batches, r.processor_id,
                                                                << >>, now)
                                   ELSE _batches
                    /\ UNCHANGED <<heap, _jobs, files, tasks>>
    /\ UNCHANGED <<queues, streams, now, ticks, pools, validated, oauth, poll>>

\* `await f.read()` of file i returns or raises, and the handler runs on to
\* its next read or to its end.  One-job branch: save_upload of the file,
\* after the last one create_task over all the paths.  Fan-out loop:
\* job_manager.create, save_upload, get_job_dir and create_task for the one
\* file, after the last one job_manager.create_batch.  A failing read or
\* save ends the handler where it is (500).  save_upload makes uploads/<id>
\* before it writes.
create_batch_resumes(h) ==
    /\ h \in DOMAIN handlers
    /\ handlers[h].pc = "reading"
    /\ LET r == handlers[h].r
           i == handlers[h].i
           fails == r.fail = i
           last == i = Len(r.filenames)
           after == [handlers[h] EXCEPT !.pc = IF fails \/ last THEN "done" ELSE "reading",
                                        !.i = IF fails \/ last THEN i ELSE i + 1]
       IN  IF fails /\ r.fail_at = "read"
           THEN /\ handlers' = [handlers EXCEPT ![h] = after]
                /\ UNCHANGED <<heap, _jobs, _batches, files, tasks>>
           ELSE IF get_processor(r.processor_id).accepts_multiple_files
           THEN LET job == handlers[h].created[1]
                    input_paths == [k \in DOMAIN r.filenames |->
                                       save_upload(job, NameOrUpload(r.filenames[k]))]
                IN  /\ files' = [files EXCEPT !.uploads = @ \cup {job}]
                    /\ tasks' = IF last /\ ~fails
                                THEN [tasks EXCEPT ![job] = Spawned(input_paths[1], input_paths)]
                                ELSE tasks
                    /\ handlers' = [handlers EXCEPT ![h] = after]
                    /\ UNCHANGED <<heap, _jobs, _batches>>
           ELSE LET name == NameOrUpload(r.filenames[i])
                    job_ids == Append(handlers[h].created, NextId)
                IN  /\ NextId <= MaxJobs
                    /\ heap' = heap @@ (NextId :> Job(r.processor_id, name, now))
                    /\ _jobs' = _jobs \cup {NextId}
                    /\ files' = [uploads |-> files.uploads \cup {NextId},
                                 jobs    |-> IF fails THEN files.jobs
                                             ELSE files.jobs \cup {NextId}]
                    /\ tasks' = tasks @@ (NextId :>
                           IF fails THEN NoTask
                           ELSE Spawned(save_upload(NextId, name), None))
                    /\ handlers' = [handlers EXCEPT ![h] = [after EXCEPT !.created = job_ids]]
                    /\ _batches' = IF last /\ ~fails
                                   THEN JobManager_create_batch(_batches, r.processor_id,
                                                                job_ids, now)
                                   ELSE _batches
    /\ UNCHANGED <<queues, streams, now, ticks, pools, validated, oauth, poll>>

----------------------------------------------------------------------------
(* The job-execution task _run_job (app/routers/jobs.py).  tasks[j].calls   *)
(* records the events of the on_progress calls the processor has made, and  *)
(* tasks[j].raised the message of the error process() raised, if it did.    *)

Script(job_id) == get_processor(heap[job_id].processor_id).script

ErrorTexts == {"FFmpeg failed"}

\* str(e) of the TypeError of processor.process(input_path, output_dir,
\* on_progress, options, input_paths) on the processor of the registry whose
\* process() has no input_paths parameter (self and four parameters, the
\* last one defaulted; the bound call passes six)
TypeErrorText ==
    "ImageConvertProcessor.process() takes from 4 to 5 positional arguments but 6 were given"

\* for q in job._listeners: await q.put({...}) after a terminal transition
Notify(qs, job, event) == PutAll(qs, job._listeners, event)

CompletedEvent == [status |-> COMPLETED, progress |-> Pct(100), message |-> "Done!"]

FailedEvent(job, error) == [status |-> FAILED, progress |-> job.progress, message |-> error]

\* str(result_path) of the file the processor returns, inside jobs/<id>/
ResultPath(job_id) ==
    "jobs/" \o ToString(job_id) \o "/" \o get_processor(heap[job_id].processor_id).output

\* the try body with the call of mark_completed left out
RunJobSucceeded_no_mark(h, ids, qs, job_id, result_path) ==
    LET up == update_progress(h, ids, qs, job_id, Pct(100), "Done!")
    IN  [ heap   |-> up.heap,
          queues |-> Notify(up.queues, up.heap[job_id], CompletedEvent) ]

\* the try body after process() has returned result_path
RunJobSucceeded(h, ids, qs, job_id, result_path) ==
    LET h1 == mark_completed(h, job_id, result_path)
        up == update_progress(h1, ids, qs, job_id, Pct(100), "Done!")
    IN  [ heap   |-> up.heap,
          queues |-> Notify(up.queues, up.heap[job_id], CompletedEvent) ]

\* the except body, e being the exception and error = str(e)
RunJobFailed(h, qs, job_id, error) ==
    LET h1 == mark_failed(h, job_id, error)
    IN  [ heap   |-> h1,
          queues |-> Notify(qs, h1[job_id], FailedEvent(h1[job_id], error)) ]

\* _run_job that invokes the processor without setting the status
RunJobStart_keeps_pending(j) ==
    /\ j \in DOMAIN tasks
    /\ tasks[j].pc = "spawned"
    /\ tasks' = [tasks EXCEPT ![j].pc = IF j \in _jobs THEN "running" ELSE "done"]
    /\ UNCHANGED <<heap, _jobs, _batches, queues, streams, files, now, ticks, pools, validated, oauth, poll, handlers>>

\* job = job_manager.get(job_id); job.status = PROCESSING; the processor is invoked
RunJobStart(j) ==
    /\ j \in DOMAIN tasks
    /\ tasks[j].pc = "spawned"
    /\ IF j \notin _jobs
       THEN /\ tasks' = [tasks EXCEPT ![j].pc = "done"]
            /\ UNCHANGED heap
       ELSE /\ heap' = [heap EXCEPT ![j].status = PROCESSING]
            /\ tasks' = [tasks EXCEPT ![j].pc = "running"]
    /\ UNCHANGED <<_jobs, _batches, queues, streams, files, now, ticks, pools, validated, oauth, poll, handlers>>

\* the processor awaits on_progress(pct, msg) for the next call of its script
OnProgress(j) ==
    /\ j \in DOMAIN tasks
    /\ tasks[j].pc = "running"
    /\ get_processor(heap[j].processor_id).takes_input_paths
    /\ Len(tasks[j].calls) < Len(Script(j))
    /\ ~PutWaits(queues, heap[j]._listeners)
    /\ LET call == Script(j)[Len(tasks[j].calls) + 1]
           up == update_progress(heap, _jobs, queues, j, call.pct, call.msg)
       IN  /\ heap' = up.heap
           /\ queues' = up.queues
           /\ tasks' = [tasks EXCEPT ![j].calls =
                           Append(@, ProgressEvent(up.heap[j], call.pct, call.msg))]
    /\ UNCHANGED <<_jobs, _batches, streams, files, now, ticks, pools, validated, oauth, poll, handlers>>

\* process() returns its result path after the last call of its script
ProcessorReturns(j) ==
    /\ j \in DOMAIN tasks
    /\ tasks[j].pc = "running"
    /\ get_processor(heap[j].processor_id).takes_input_paths
    /\ Len(tasks[j].calls) = Len(Script(j))
    /\ ~PutWaits(queues, heap[j]._listeners)
    /\ LET done == RunJobSucceeded(heap, _jobs, queues, j, ResultPath(j))
       IN  /\ heap' = done.heap
           /\ queues' = done.queues
    /\ tasks' = [tasks EXCEPT ![j].pc = "done"]
    /\ UNCHANGED <<_jobs, _batches, streams, files, now, ticks, pools, validated, oauth, poll, handlers>>

\* process() raises: the TypeError of the call itself when it lacks the
\* input_paths parameter, otherwise an error of its work at any suspension point
ProcessorRaises(j, error) ==
    /\ j \in DOMAIN tasks
    /\ tasks[j].pc = "running"
    /\ IF get_processor(heap[j].processor_id).takes_input_paths
       THEN error \in ErrorTexts
       ELSE error = TypeErrorText
    /\ ~PutWaits(queues, heap[j]._listeners)
    /\ LET done == RunJobFailed(heap, queues, j, error)
       IN  /\ heap' = done.heap
           /\ queues' = done.queues
    /\ tasks' = [tasks EXCEPT ![j].pc = "done", ![j].raised = error]
    /\ UNCHANGED <<_jobs, _batches, streams, files, now, ticks, pools, validated, oauth, poll, handlers>>

----------------------------------------------------------------------------
(* GET /jobs/{job_id}/progress (app/routers/jobs.py).  streams[s].out is    *)
(* what the response body has yielded; streams[s].got holds the event that  *)
(* queue.get() has taken from the sink and the generator has not yielded    *)
(* yet; subscribed_at / snapshot_at record how many on_progress calls the   *)
(* job's processor had made at that moment; cancelled says that the client  *)
(* has gone and the task that iterates the body is being cancelled.         *)
(*                                                                          *)
(* asyncio.wait_for(queue.get(), timeout=60) (CPython 3.11) runs            *)
(* queue.get() in a task of its own and waits for that task or for its      *)
(* timer.  The positions of a stream:                                       *)
(*   subscribed  the handler has returned, the body has not started         *)
(*   snapshot    suspended at the yield of the snapshot                     *)
(*   open        in wait_for, the get task has not run yet                  *)
(*   waiting     in wait_for, the get task waits on the empty queue (or has *)
(*               been woken by a put and not run yet)                       *)
(*   fetched     the get task has taken an event and ended, wait_for has    *)
(*               not returned yet                                           *)
(*   yielded     suspended at the yield of an event that is not the last    *)
(*   expired     the timer has fired, wait_for cancels the get task and     *)
(*               waits for its end                                          *)
(*   cancelling  CancelledError is on its way out of wait_for               *)
(*   last        suspended at the last yield                                *)
(*   abandoned   suspended at a yield, the task that iterated the body has  *)
(*               ended                                                      *)
(*   closed      the generator has ended                                    *)
(* A stream stays in the listener list of its job until its finally clause  *)
(* runs, so on_progress calls reach its queue in every position but closed. *)

TimeoutEvent == [status |-> "timeout"]

NextStream == Cardinality(DOMAIN streams) + 1

CallsMade(job_id) == IF job_id \in DOMAIN tasks THEN Len(tasks[job_id].calls) ELSE 0

\* the handler: 404 for an unknown id, else subscribe and return the response
job_progress_sse(job_id) ==
    IF job_id \notin _jobs
    THEN UNCHANGED vars
    ELSE /\ NextStream <= MaxStreams
         /\ heap' = subscribe(heap, job_id, NextStream)
         /\ queues' = queues @@ (NextStream :> << >>)
         /\ streams' = streams @@ (NextStream :>
                [ job_id |-> job_id, pc |-> "subscribed", out |-> << >>, got |-> << >>,
                  subscribed_at |-> CallsMade(job_id), snapshot_at |-> 0,
                  cancelled |-> FALSE ])
         /\ UNCHANGED <<_jobs, _batches, tasks, files, now, ticks, pools, validated, oauth, poll, handlers>>

\* event_stream up to its first yield: the snapshot of the job as it is now
EventStreamStart(s) ==
    /\ s \in DOMAIN streams
    /\ streams[s].pc = "subscribed"
    /\ streams' = [streams EXCEPT
           ![s].out = << to_dict(streams[s].job_id, heap[streams[s].job_id]) >>,
           ![s].snapshot_at = CallsMade(streams[s].job_id),
           ![s].pc = "snapshot"]
    /\ UNCHANGED <<heap, _jobs, _batches, queues, tasks, files, now, ticks, pools, validated, oauth, poll, handlers>>

\* event_stream resumes after a yield.  After the snapshot it returns (and
\* the finally clause unsubscribes) if the job is finished by now, else it
\* enters the loop; after an event that is not the last it goes round the
\* loop.  In the loop wait_for creates the task that runs queue.get().
EventStreamResume(s) ==
    /\ s \in DOMAIN streams
    /\ streams[s].pc \in {"snapshot", "yielded"}
    /\ LET job_id == streams[s].job_id
           finished == /\ streams[s].pc = "snapshot"
                       /\ heap[job_id].status \in {COMPLETED, FAILED}
       IN  /\ streams' = [streams EXCEPT ![s].pc = IF finished THEN "closed" ELSE "open"]
           /\ heap' = IF finished THEN unsubscribe(heap, _jobs, job_id, s) ELSE heap
    /\ UNCHANGED <<_jobs, _batches, queues, tasks, files, now, ticks, pools, validated, oauth, poll, handlers>>

\* the task that runs queue.get() finds the queue empty and waits on it.  A
\* cancellation delivered before this step resumes wait_for right after it:
\* wait_for finds the get task not done, cancels it and re-raises.
QueueWait(s) ==
    /\ s \in DOMAIN streams
    /\ streams[s].pc = "open"
    /\ queues[s] = << >>
    /\ streams' = [streams EXCEPT
           ![s].pc = IF streams[s].cancelled THEN "cancelling" ELSE "waiting"]
    /\ UNCHANGED <<heap, _jobs, _batches, queues, tasks, files, now, ticks, pools, validated, oauth, poll, handlers>>

\* the task that runs queue.get(), in its first step or woken by a put,
\* takes the oldest event from the sink and ends; event_stream is resumed
\* with the event in a later turn of the loop
QueueGet(s) ==
    /\ s \in DOMAIN streams
    /\ streams[s].pc \in {"open", "waiting"}
    /\ queues[s] # << >>
    /\ queues' = [queues EXCEPT ![s] = Tail(@)]
    /\ streams' = [streams EXCEPT ![s].pc = "fetched", ![s].got = << Head(queues[s]) >>]
    /\ UNCHANGED <<heap, _jobs, _batches, tasks, files, now, ticks, pools, validated, oauth, poll, handlers>>

\* wait_for returns the event (also when it is resumed by a cancellation:
\* `except CancelledError: if fut.done(): return fut.result()`) and
\* event_stream yields it: the generator is suspended at `yield` while the
\* chunk is sent.  The check of the event's status is made when it resumes;
\* a terminal event is the last one the generator yields.
EventStreamNext(s) ==
    /\ s \in DOMAIN streams
    /\ streams[s].pc = "fetched"
    /\ LET event == streams[s].got[1]
           last == event.status \in {COMPLETED, FAILED}
       IN  streams' = [streams EXCEPT
               ![s].out = Append(@, event),
               ![s].got = << >>,
               ![s].pc = IF last THEN "last" ELSE "yielded"]
    /\ UNCHANGED <<heap, _jobs, _batches, queues, tasks, files, now, ticks, pools, validated, oauth, poll, handlers>>

\* the timer of wait_for(queue.get(), timeout=60) fires while the get task
\* waits on the empty queue (after 60 s that task has long run): wait_for is
\* resumed before any put can wake the get task, cancels it and waits for
\* its end, which takes further turns of the loop
WaitForExpires(s) ==
    /\ s \in DOMAIN streams
    /\ streams[s].pc = "waiting"
    /\ queues[s] = << >>
    /\ streams' = [streams EXCEPT ![s].pc = "expired"]
    /\ UNCHANGED <<heap, _jobs, _batches, queues, tasks, files, now, ticks, pools, validated, oauth, poll, handlers>>

\* a timeout that is taken for a failure of the job
EventStreamTimeout_fails_job(s) ==
    /\ s \in DOMAIN streams
    /\ streams[s].pc = "expired"
    /\ streams' = [streams EXCEPT ![s].out = Append(@, TimeoutEvent), ![s].pc = "last"]
    /\ heap' = mark_failed(heap, streams[s].job_id, "timeout")
    /\ UNCHANGED <<_jobs, _batches, queues, tasks, files, now, ticks, pools, validated, oauth, poll, handlers>>

\* the cancelled get task has ended: wait_for raises TimeoutError and the
\* except clause yields the timeout event, whatever has been put into the
\* queue since the timer fired (the cancelled get leaves it there)
EventStreamTimeout(s) ==
    /\ s \in DOMAIN streams
    /\ streams[s].pc = "expired"
    /\ streams' = [streams EXCEPT ![s].out = Append(@, TimeoutEvent), ![s].pc = "last"]
    /\ UNCHANGED <<heap, _jobs, _batches, queues, tasks, files, now, ticks, pools, validated, oauth, poll, handlers>>

\* the finally clause of event_stream: after the break or the timeout event
\* when the generator is resumed, when CancelledError leaves wait_for, or
\* when an abandoned generator is finalized (GeneratorExit at its yield)
EventStreamFinally(s) ==
    /\ s \in DOMAIN streams
    /\ streams[s].pc \in {"last", "cancelling", "abandoned"}
    /\ streams' = [streams EXCEPT ![s].pc = "closed"]
    /\ heap' = unsubscribe(heap, _jobs, streams[s].job_id, s)
    /\ UNCHANGED <<_jobs, _batches, queues, tasks, files, now, ticks, pools, validated, oauth, poll, handlers>>

\* The client goes away: the task that iterates the body is cancelled, and
\* stays under cancellation until it ends.  A generator whose body never
\* started has entered no try block, so discarding it runs nothing.  At a
\* yield the task ends in its send and the generator is left there, with
\* whatever its queue holds.  In wait_for the outcome depends on the get
\* task: if it waits on the empty queue (or is being cancelled after the
\* timer), CancelledError leaves wait_for once the get task has ended; if it
\* has not run yet, has been woken by a put or has taken an event, it is
\* ahead of the cancellation in the loop and the stream goes on from where
\* it is: the event is yielded, and the task, still under cancellation,
\* either ends in the send of that event or, if sending does not suspend,
\* resumes the generator.
ClientDisconnect(s) ==
    /\ s \in DOMAIN streams
    /\ streams[s].pc \notin {"closed", "abandoned", "cancelling"}
    /\ ~streams[s].cancelled \/ streams[s].pc = "yielded"
    /\ LET pc == streams[s].pc
       IN  streams' = [streams EXCEPT
               ![s].cancelled = TRUE,
               ![s].pc = IF pc = "subscribed" THEN "closed"
                         ELSE IF pc \in {"snapshot", "yielded", "last"} THEN "abandoned"
                         ELSE IF pc = "expired" THEN "cancelling"
                         ELSE IF pc = "waiting" /\ queues[s] = << >> THEN "cancelling"
                         ELSE pc]
    /\ UNCHANGED <<heap, _jobs, _batches, queues, tasks, files, now, ticks, pools, validated, oauth, poll, handlers>>

----------------------------------------------------------------------------
(* The thread pools of the processors (app/processors/*.py).  Every module  *)
(* that offloads work creates its own ThreadPoolExecutor(_MAX_WORKERS) when *)
(* it is imported.  A pool runs at most _MAX_WORKERS items at a time and    *)
(* takes them from its work queue first in, first out.  An item is          *)
(* [job, frame]: frame 0 is the first call a process() makes (new_session   *)
(* for video-bg-remove, the whole merge for pdf-merge), frames 1..N are the *)
(* frames of a video-bg-remove job, and frame MaxFrames + 1 is the assembly *)
(* of its output when the format is assembled in the pool (gif, png-zip).   *)
(* In SpecPool tasks[j] is the process() call of job j: in_pool tells       *)
(* whether its format is one that is assembled in the pool; total is        *)
(* len(frames), known once _extract_frames has returned; frames[i] is where *)
(* item i is: "none" (not part of this call, or not reached), "new" (its    *)
(* process_frame has not passed the semaphore), "queued", "running",        *)
(* "finished" / "failed" (the thread has returned / raised and the awaiting *)
(* coroutine has not resumed), "done" / "raised" (it has).                  *)

\* os.cpu_count() or 4
CpuCount == 4

Max(a, b) == IF a >= b THEN a ELSE b

\* _MAX_WORKERS = max(2, (os.cpu_count() or 4) // 2), the same in every module
_MAX_WORKERS == Max(2, CpuCount \div 2)

PoolModules == {"video_bg_remove", "pdf_merge"}

IdlePool == [queue |-> << >>, running |-> {}]

\* _pool = ThreadPoolExecutor(max_workers=_MAX_WORKERS), once per module
IdlePools == [m \in PoolModules |-> IdlePool]

\* the process() calls of SpecPool: two video-bg-remove jobs and a pdf-merge
PoolJobs == << "video_bg_remove", "video_bg_remove", "pdf_merge" >>

\* out_format = str(opts.get("format", "webp")); pdf-merge has no options
Formats(module) ==
    IF module = "video_bg_remove" THEN {"webp", "gif", "mov", "png-zip"} ELSE {"pdf"}

\* the values of the option fps the calls are given, as texts; pdf-merge
\* reads no option
FpsTexts(module) ==
    IF module = "video_bg_remove" THEN {"8", "abc", "12.5"} ELSE {""}

\* int(opts.get("fps", 15)) returns: int() reads the text as an integer
FpsIsInt(fps) == fps \in DOMAIN IntTexts

\* the formats whose assembly is handed to _pool (_create_gif, _create_png_zip);
\* webp and mov are assembled by a subprocess
AssembledInPool(format) == format \in {"gif", "png-zip"}

\* the item of the assembly
Assembly == MaxFrames + 1

\* the items that have raised in their thread
Failed == { x \in (DOMAIN tasks) \X (0..Assembly) :
               tasks[x[1]].frames[x[2]] \in {"failed", "raised"} }

\* a semaphore as large as the number of frames: no throttling
SemaphoreSize_all_frames(total) == total

\* sem = asyncio.Semaphore(_MAX_WORKERS), one per process() call
SemaphoreSize(total) == _MAX_WORKERS

\* the frames of a job that hold its semaphore: from the acquire before
\* run_in_executor to the release after the on_progress that follows it (or
\* after the exception of the frame)
HoldingSem(t) == { i \in 1..t.total :
                      t.frames[i] \in {"queued", "running", "finished", "failed"} }

\* loop.run_in_executor(_pool, ...): the item joins the pool's work queue
Submit(ps, module, item) == [ps EXCEPT ![module].queue = Append(@, item)]

\* an on_progress call of process(): the percent in hundredths, and the
\* frame counter of the message ("frame k/total"), 0 for the other messages
ProgressCall(pct, frame) == [pct |-> pct, frame |-> frame]

\* the on_progress calls process() makes from where it last was suspended
\* (video-bg-remove: in _extract_frames; pdf-merge: nowhere, it has just been
\* called) to its first run_in_executor.  An on_progress call itself does
\* not suspend process(): update_progress puts into unbounded queues.
CallsBeforeFirst(module) ==
    IF module = "video_bg_remove"
    THEN << ProgressCall(Pct(10), 0), ProgressCall(Pct(12), 0) >>
    ELSE << ProgressCall(Pct(10), 0) >>

\* pct = 15 + (completed / total) * 65, in hundredths (rounded down)
FramePct(completed, total) == Pct(15) + (completed * Pct(65)) \div total

\* process() is called with the options of the job
StartProcess(j, format, fps) ==
    /\ j \in DOMAIN PoolJobs
    /\ j \notin DOMAIN tasks
    /\ format \in Formats(PoolJobs[j])
    /\ fps \in FpsTexts(PoolJobs[j])
    /\ tasks' = tasks @@ (j :>
           [ module |-> PoolJobs[j], in_pool |-> AssembledInPool(format),
             fps |-> fps,
             total |-> 0, pc |-> "started",
             frames |-> [i \in 0..Assembly |-> "none"],
             ran    |-> [i \in 0..Assembly |-> 0],
             completed |-> 0,
             calls  |-> << >> ])
    /\ UNCHANGED <<heap, _jobs, _batches, queues, streams, files, now, ticks, pools, validated, oauth, poll, handlers>>

\* video-bg-remove, the first step of process(): int() of the option fps
\* raises ValueError for a text that is no integer, and process() ends
\* there; else step 1: on_progress(5), then process() is suspended in
\* `await self._extract_frames(...)` while FFmpeg runs
ExtractFrames(j) ==
    /\ j \in DOMAIN tasks
    /\ tasks[j].pc = "started"
    /\ tasks[j].module = "video_bg_remove"
    /\ tasks' = IF FpsIsInt(tasks[j].fps)
                THEN [tasks EXCEPT ![j].pc = "extracting",
                                   ![j].calls = << ProgressCall(Pct(5), 0) >>]
                ELSE [tasks EXCEPT ![j].pc = "raised"]
    /\ UNCHANGED <<heap, _jobs, _batches, queues, streams, files, now, ticks, pools, validated, oauth, poll, handlers>>

\* process() runs on to its first `await loop.run_in_executor(_pool, ...)`.
\* video-bg-remove: _extract_frames has ended and left n frames; with none
\* (or with FFmpeg failing) process() raises RuntimeError, else
\* on_progress(10), on_progress(12) and new_session is submitted.
\* pdf-merge, from its call: on_progress(10) and the merge is submitted.
SubmitFirst(j, n) ==
    /\ j \in DOMAIN tasks
    /\ tasks[j].pc = IF tasks[j].module = "video_bg_remove" THEN "extracting" ELSE "started"
    /\ tasks[j].module = "pdf_merge" => n = 0
    /\ IF tasks[j].module = "video_bg_remove" /\ n = 0
       THEN /\ tasks' = [tasks EXCEPT ![j].pc = "raised"]
            /\ UNCHANGED pools
       ELSE /\ tasks' = [tasks EXCEPT ![j].pc = "first", ![j].total = n,
                                      ![j].frames[0] = "queued",
                                      ![j].calls = @ \o CallsBeforeFirst(tasks[j].module)]
            /\ pools' = Submit(pools, tasks[j].module, [job |-> j, frame |-> 0])
    /\ UNCHANGED <<heap, _jobs, _batches, queues, streams, files, now, ticks,
                   validated, oauth, poll, handlers>>

\* a free thread of the pool takes the oldest item of the work queue
PoolStart(m) ==
    /\ pools[m].queue # << >>
    /\ Cardinality(pools[m].running) < _MAX_WORKERS
    /\ LET item == Head(pools[m].queue)
       IN  /\ pools' = [pools EXCEPT ![m].queue = Tail(@),
                                     ![m].running = @ \cup {item}]
           /\ tasks' = [tasks EXCEPT ![item.job].frames[item.frame] = "running",
                                     ![item.job].ran[item.frame] = @ + 1]
    /\ UNCHANGED <<heap, _jobs, _batches, queues, streams, files, now, ticks,
                   validated, oauth, poll, handlers>>

\* the thread returns from the item, or the item raises; its future is done
PoolFinish(m, item, ok) ==
    /\ item \in pools[m].running
    /\ ~ok => Cardinality(Failed) < MaxFailures
    /\ pools' = [pools EXCEPT ![m].running = @ \ {item}]
    /\ tasks' = [tasks EXCEPT ![item.job].frames[item.frame] =
                                  IF ok THEN "finished" ELSE "failed"]
    /\ UNCHANGED <<heap, _jobs, _batches, queues, streams, files, now, ticks,
                   validated, oauth, poll, handlers>>

\* process() resumes after its first run_in_executor.  If the item raised,
\* process() raises; else video-bg-remove creates its semaphore and calls
\* gather, which makes a task of process_frame for every frame, and pdf-merge
\* makes on_progress(100) and returns.
ResumeFirst(j) ==
    /\ j \in DOMAIN tasks
    /\ tasks[j].pc = "first"
    /\ tasks[j].frames[0] \in {"finished", "failed"}
    /\ tasks' = [tasks EXCEPT ![j] =
          IF tasks[j].frames[0] = "failed"
          THEN [@ EXCEPT !.frames[0] = "raised", !.pc = "raised"]
          ELSE IF tasks[j].module = "video_bg_remove"
          THEN [@ EXCEPT !.pc = "frames",
                         !.frames = [i \in 0..Assembly |->
                                        IF i = 0 THEN "done"
                                        ELSE IF i <= tasks[j].total THEN "new"
                                        ELSE "none"]]
          ELSE [@ EXCEPT !.frames[0] = "done", !.pc = "done",
                         !.calls = Append(@, ProgressCall(Pct(100), 0))]]
    /\ UNCHANGED <<heap, _jobs, _batches, queues, streams, files, now, ticks, pools, validated, oauth, poll, handlers>>

\* process_frame of the next frame enters 'async with sem' and submits the
\* frame; the tasks of gather start, and the semaphore wakes its waiters, in
\* the order of the frames.  The tasks of gather run on when another frame
\* has made gather raise: gather does not cancel them.
AcquireAndSubmit(j) ==
    /\ j \in DOMAIN tasks
    /\ \E i \in 1..tasks[j].total :
          /\ tasks[j].frames[i] = "new"
          /\ \A k \in 1..(i - 1) : tasks[j].frames[k] # "new"
          /\ Cardinality(HoldingSem(tasks[j])) < SemaphoreSize(tasks[j].total)
          /\ tasks' = [tasks EXCEPT ![j].frames[i] = "queued"]
          /\ pools' = Submit(pools, tasks[j].module, [job |-> j, frame |-> i])
    /\ UNCHANGED <<heap, _jobs, _batches, queues, streams, files, now, ticks,
                   validated, oauth, poll, handlers>>

\* process_frame that reports the number of its own frame
ResumeFrame_reports_own_frame(j, i) ==
    /\ j \in DOMAIN tasks
    /\ i \in 1..tasks[j].total
    /\ tasks[j].frames[i] \in {"finished", "failed"}
    /\ tasks' = [tasks EXCEPT ![j] =
          IF tasks[j].frames[i] = "failed"
          THEN [@ EXCEPT !.frames[i] = "raised"]
          ELSE [@ EXCEPT !.frames[i] = "done",
                         !.completed = @ + 1,
                         !.calls = Append(@, ProgressCall(FramePct(i, tasks[j].total), i))]]
    /\ UNCHANGED <<heap, _jobs, _batches, queues, streams, files, now, ticks, pools, validated, oauth, poll, handlers>>

\* process_frame resumes.  The frame was removed: completed += 1, pct from
\* completed, on_progress (no await in between; the puts of on_progress do
\* not suspend), leave 'async with sem'.  The frame raised: the exception
\* leaves 'async with sem' and ends the task of this process_frame.
ResumeFrame(j, i) ==
    /\ j \in DOMAIN tasks
    /\ i \in 1..tasks[j].total
    /\ tasks[j].frames[i] \in {"finished", "failed"}
    /\ tasks' = [tasks EXCEPT ![j] =
          IF tasks[j].frames[i] = "failed"
          THEN [@ EXCEPT !.frames[i] = "raised"]
          ELSE [@ EXCEPT !.frames[i] = "done",
                         !.completed = @ + 1,
                         !.calls = Append(@, ProgressCall(
                                      FramePct(tasks[j].completed + 1, tasks[j].total),
                                      tasks[j].completed + 1))]]
    /\ UNCHANGED <<heap, _jobs, _batches, queues, streams, files, now, ticks, pools, validated, oauth, poll, handlers>>

\* the frames of a call whose process_frame has ended with an exception
Raised(t) == { i \in 1..t.total : t.frames[i] = "raised" }

\* `await asyncio.gather(...)` ends.  It re-raises as soon as one
\* process_frame has raised, and process() raises with it.  It returns when
\* every process_frame has returned: on_progress(82), on_progress(85), and
\* process() is suspended in the await that assembles the output, for gif
\* and png-zip a run_in_executor on the same _pool, for webp and mov a
\* subprocess.
GatherReturns(j) ==
    /\ j \in DOMAIN tasks
    /\ tasks[j].pc = "frames"
    /\ IF Raised(tasks[j]) # {}
       THEN /\ tasks' = [tasks EXCEPT ![j].pc = "raised"]
            /\ UNCHANGED pools
       ELSE /\ \A i \in 1..tasks[j].total : tasks[j].frames[i] = "done"
            /\ tasks' = [tasks EXCEPT
                  ![j].pc = "assemble",
                  ![j].frames[Assembly] =
                      IF tasks[j].in_pool THEN "queued" ELSE "none",
                  ![j].calls = @ \o << ProgressCall(Pct(82), 0),
                                       ProgressCall(Pct(85), 0) >>]
            /\ pools' = IF tasks[j].in_pool
                        THEN Submit(pools, tasks[j].module, [job |-> j, frame |-> Assembly])
                        ELSE pools
    /\ UNCHANGED <<heap, _jobs, _batches, queues, streams, files, now, ticks,
                   validated, oauth, poll, handlers>>

\* the assembly has ended (the pool item, or the subprocess): if it went
\* well, on_progress(100) and process() returns, else process() raises
AssembleReturns(j, ok) ==
    /\ j \in DOMAIN tasks
    /\ tasks[j].pc = "assemble"
    /\ tasks[j].in_pool =>
          tasks[j].frames[Assembly] = IF ok THEN "finished" ELSE "failed"
    /\ tasks' = [tasks EXCEPT ![j] =
          [@ EXCEPT !.pc = IF ok THEN "done" ELSE "raised",
                    !.frames[Assembly] = IF ~tasks[j].in_pool THEN "none"
                                         ELSE IF ok THEN "done" ELSE "raised",
                    !.calls = IF ok THEN Append(@, ProgressCall(Pct(100), 0)) ELSE @]]
    /\ UNCHANGED <<heap, _jobs, _batches, queues, streams, files, now, ticks, pools, validated, oauth, poll, handlers>>

----------------------------------------------------------------------------
(* HTTP job surface (app/routers/jobs.py): result download *)

\* download_result that serves whatever a finished job has
download_result_code_any_terminal(h, ids, job_id) ==
    IF job_id \notin ids THEN 404
    ELSE IF h[job_id].status \notin Terminal THEN 400
    ELSE 200

\* the status code GET /jobs/{job_id}/result answers with; 200 is the
\* FileResponse for job.result_path
download_result_code(h, ids, job_id) ==
    IF job_id \notin ids THEN 404
    ELSE IF h[job_id].status # COMPLETED \/ h[job_id].result_path = None THEN 400
    ELSE 200

\* GET /jobs/{job_id}/result: the handler reads the job and assigns nothing
download_result(job_id) ==
    /\ download_result_code(heap, _jobs, job_id) \in {200, 400, 404}
    /\ UNCHANGED vars

----------------------------------------------------------------------------
(* The reaper (app/main.py) and the clock *)

\* for job_id in expired: cleanup_job(job_id); job_manager.remove_job(job_id)
RECURSIVE ReapAll(_, _, _, _)
ReapAll(ids, bs, fs, expired) ==
    IF expired = << >> THEN [_jobs |-> ids, _batches |-> bs, files |-> fs]
    ELSE LET rm == remove_job(ids, bs, Head(expired))
         IN  ReapAll(rm._jobs, rm._batches, cleanup_job(fs, Head(expired)), Tail(expired))

ReaperPass ==
    ReapAll(_jobs, _batches, files, collect_expired(heap, _jobs, now, CLEANUP_MAX_AGE))

\* one pass of _cleanup_loop
_cleanup_loop ==
    /\ _jobs' = ReaperPass._jobs
    /\ _batches' = ReaperPass._batches
    /\ files' = ReaperPass.files
    /\ UNCHANGED <<heap, queues, tasks, streams, now, ticks, pools, validated, oauth, poll, handlers>>

\* the body of the response of DELETE /cleanup
manual_cleanup_removed == Len(collect_expired(heap, _jobs, now, CLEANUP_MAX_AGE))

\* the directory whose rmtree raises
RaisesAt == {"uploads", "jobs"}

\* cleanup_job that raises: the uploads directory is removed first, so it is
\* gone when the working directory is the one that fails
cleanup_job_raising(fs, job_id, at) ==
    IF at = "uploads" THEN fs ELSE [fs EXCEPT !.uploads = @ \ {job_id}]

\* DELETE /cleanup.  k = 0: no call raises and the answer is 200 with the
\* count.  Otherwise cleanup_job raises for the k-th expired job: the jobs
\* before it are reaped, its record and the later jobs stay, and the
\* exception leaves the handler (no try / except here), answered 500.
manual_cleanup(k, at) ==
    /\ LET expired == collect_expired(heap, _jobs, now, CLEANUP_MAX_AGE)
       IN  /\ k <= Len(expired)
           /\ LET before == ReapAll(_jobs, _batches, files,
                                    IF k = 0 THEN expired ELSE SubSeq(expired, 1, k - 1))
              IN  /\ _jobs' = before._jobs
                  /\ _batches' = before._batches
                  /\ files' = IF k = 0 THEN before.files
                              ELSE cleanup_job_raising(before.files, expired[k], at)
    /\ UNCHANGED <<heap, queues, tasks, streams, now, ticks, pools, validated, oauth, poll, handlers>>

\* the clock advances to the reaper's age limit exactly, or just past it
ClockSteps == {CLEANUP_MAX_AGE, CLEANUP_MAX_AGE + 1}

Tick(d) ==
    /\ ticks < MaxTicks
    /\ now' = now + d
    /\ ticks' = ticks + 1
    /\ UNCHANGED <<heap, _jobs, _batches, queues, tasks, streams, files, pools, validated, oauth, poll, handlers>>

----------------------------------------------------------------------------
(* The running server: submissions, job-execution tasks, reaper passes and  *)
(* the clock, interleaved in any order.                                     *)

Init ==
    /\ heap = << >>
    /\ _jobs = {}
    /\ _batches = << >>
    /\ queues = << >>
    /\ tasks = << >>
    /\ streams = << >>
    /\ files = [uploads |-> {}, jobs |-> {}]
    /\ now = 0
    /\ ticks = 0
    /\ pools = IdlePools
    /\ validated = NotValidated
    /\ oauth = NoOauth
    /\ poll = NotPolling
    /\ handlers = << >>

Next ==
    \/ \E r \in JobRequests : create_job(r)
    \/ \E r \in BatchRequests : create_batch(r)
    \/ \E h \in 1..MaxHandlers : create_batch_resumes(h)
    \/ \E j \in 1..MaxJobs : RunJobStart(j)
    \/ \E j \in 1..MaxJobs : OnProgress(j)
    \/ \E j \in 1..MaxJobs : ProcessorReturns(j)
    \/ \E j \in 1..MaxJobs, e \in ErrorTexts \cup {TypeErrorText} : ProcessorRaises(j, e)
    \/ _cleanup_loop
    \/ manual_cleanup(0, "uploads")
    \/ \E k \in 1..MaxJobs, at \in RaisesAt : manual_cleanup(k, at)
    \/ \E j \in 1..MaxJobs + 1 : download_result(j)
    \/ \E d \in ClockSteps : Tick(d)

Spec == Init /\ [][Next]_vars

----------------------------------------------------------------------------
(* The progress streams of one job: the server right after it has answered  *)
(* POST /jobs for GifRequest, then the job's task and the SSE requests for  *)
(* it (and for an unknown id), interleaved in any order.                    *)

InitSse ==
    /\ heap = (1 :> Job(GifRequest.processor_id, NameOrUpload(GifRequest.filename), 0))
    /\ _jobs = {1}
    /\ _batches = << >>
    /\ queues = << >>
    /\ tasks = (1 :> Spawned(save_upload(1, NameOrUpload(GifRequest.filename)), None))
    /\ streams = << >>
    /\ files = [uploads |-> {1}, jobs |-> {1}]
    /\ now = 0
    /\ ticks = 0
    /\ pools = IdlePools
    /\ validated = NotValidated
    /\ oauth = NoOauth
    /\ poll = NotPolling
    /\ handlers = << >>

NextSse ==
    \/ RunJobStart(1)
    \/ OnProgress(1)
    \/ ProcessorReturns(1)
    \/ \E e \in ErrorTexts : ProcessorRaises(1, e)
    \/ \E j \in 1..2 : job_progress_sse(j)
    \/ \E s \in 1..MaxStreams : EventStreamStart(s)
    \/ \E s \in 1..MaxStreams : EventStreamResume(s)
    \/ \E s \in 1..MaxStreams : QueueWait(s)
    \/ \E s \in 1..MaxStreams : QueueGet(s)
    \/ \E s \in 1..MaxStreams : EventStreamNext(s)
    \/ \E s \in 1..MaxStreams : WaitForExpires(s)
    \/ \E s \in 1..MaxStreams : EventStreamTimeout(s)
    \/ \E s \in 1..MaxStreams : EventStreamFinally(s)

SpecSse == InitSse /\ [][NextSse]_vars

\* the same with clients that may go away at any moment
NextSseDisconnect ==
    \/ NextSse
    \/ \E s \in 1..MaxStreams : ClientDisconnect(s)

SpecSseDisconnect == InitSse /\ [][NextSseDisconnect]_vars

----------------------------------------------------------------------------
(* The job manager on its own: its operations applied in any order, with    *)
(* any arguments, as a test that drives JobManager directly would do.       *)

MaxEvents == 2
MaxBatches == 2

\* job ids an operation may be called with: those handed out and one that
\* was never handed out
MgrIds == 1 .. MaxJobs + 1

\* the job_ids lists create_batch may be called with
MgrJobIdLists ==
    { << >> } \cup { << a >> : a \in 1..MaxJobs } \cup { << a, b >> : a, b \in 1..MaxJobs }

MgrProgress == { 3667 }

MgrFrame == UNCHANGED <<tasks, streams, files, now, ticks, pools, validated, oauth, poll, handlers>>

\* job_manager.create(processor_id, original_filename)
MgrCreate(processor_id, original_filename) ==
    /\ NextId <= MaxJobs
    /\ heap' = heap @@ (NextId :> Job(processor_id, original_filename, now))
    /\ _jobs' = _jobs \cup {NextId}
    /\ UNCHANGED <<_batches, queues>>
    /\ MgrFrame

\* await job_manager.update_progress(job_id, progress, message)
MgrUpdateProgress(job_id, progress, message) ==
    /\ job_id \in _jobs =>
          \A q \in Range(heap[job_id]._listeners) : Len(queues[q]) < MaxEvents
    /\ LET up == update_progress(heap, _jobs, queues, job_id, progress, message)
       IN  /\ heap' = up.heap
           /\ queues' = up.queues
    /\ UNCHANGED <<_jobs, _batches>>
    /\ MgrFrame

\* job_manager.mark_completed(job_id, result_path); KeyError for an id
\* without entry
MgrMarkCompleted(job_id, result_path) ==
    /\ heap' = IF job_id \in _jobs THEN mark_completed(heap, job_id, result_path) ELSE heap
    /\ UNCHANGED <<_jobs, _batches, queues>>
    /\ MgrFrame

\* job_manager.mark_failed(job_id, error); KeyError for an id without entry
MgrMarkFailed(job_id, error) ==
    /\ heap' = IF job_id \in _jobs THEN mark_failed(heap, job_id, error) ELSE heap
    /\ UNCHANGED <<_jobs, _batches, queues>>
    /\ MgrFrame

\* job_manager.subscribe(job_id): None for an id without entry
MgrSubscribe(job_id) ==
    /\ IF job_id \in _jobs
       THEN /\ Cardinality(DOMAIN queues) < MaxStreams
            /\ heap' = subscribe(heap, job_id, Cardinality(DOMAIN queues) + 1)
            /\ queues' = queues @@ (Cardinality(DOMAIN queues) + 1 :> << >>)
       ELSE UNCHANGED <<heap, queues>>
    /\ UNCHANGED <<_jobs, _batches>>
    /\ MgrFrame

\* job_manager.unsubscribe(job_id, q)
MgrUnsubscribe(job_id, q) ==
    /\ heap' = unsubscribe(heap, _jobs, job_id, q)
    /\ UNCHANGED <<_jobs, _batches, queues>>
    /\ MgrFrame

\* job_manager.remove_job(job_id)
MgrRemoveJob(job_id) ==
    /\ _jobs' = remove_job(_jobs, _batches, job_id)._jobs
    /\ _batches' = remove_job(_jobs, _batches, job_id)._batches
    /\ UNCHANGED <<heap, queues>>
    /\ MgrFrame

\* job_manager.create_batch(processor_id, job_ids)
MgrCreateBatch(processor_id, job_ids) ==
    /\ Cardinality(DOMAIN _batches) < MaxBatches
    /\ _batches' = JobManager_create_batch(_batches, processor_id, job_ids, now)
    /\ UNCHANGED <<heap, _jobs, queues>>
    /\ MgrFrame

NextMgr ==
    \/ MgrCreate("video-to-gif", << "clip", "MP4" >>)
    \/ \E j \in MgrIds, p \in MgrProgress : MgrUpdateProgress(j, p, "working")
    \/ \E j \in MgrIds : MgrMarkCompleted(j, "jobs/" \o ToString(j) \o "/output.gif")
    \/ \E j \in MgrIds, e \in ErrorTexts : MgrMarkFailed(j, e)
    \/ \E j \in MgrIds : MgrSubscribe(j)
    \/ \E j \in MgrIds, q \in 1..MaxStreams : MgrUnsubscribe(j, q)
    \/ \E j \in MgrIds : MgrRemoveJob(j)

SpecMgr == Init /\ [][NextMgr]_vars

\* the job table and the batch table: create, create_batch and remove_job
NextBatches ==
    \/ MgrCreate("video-to-gif", << "clip", "MP4" >>)
    \/ \E ids \in MgrJobIdLists : MgrCreateBatch("video-to-gif", ids)
    \/ \E j \in MgrIds : MgrRemoveJob(j)

SpecBatches == Init /\ [][NextBatches]_vars

----------------------------------------------------------------------------
(* The process() calls of several jobs running side by side on the event    *)
(* loop, with the pool threads.                                             *)

NextPool ==
    \/ \E j \in DOMAIN PoolJobs :
          \E f \in Formats(PoolJobs[j]), fps \in FpsTexts(PoolJobs[j]) : StartProcess(j, f, fps)
    \/ \E j \in DOMAIN PoolJobs : ExtractFrames(j)
    \/ \E j \in DOMAIN PoolJobs, n \in 0..MaxFrames : SubmitFirst(j, n)
    \/ \E m \in PoolModules : PoolStart(m)
    \/ \E m \in PoolModules, j \in DOMAIN PoolJobs, i \in 0..Assembly, ok \in BOOLEAN :
          PoolFinish(m, [job |-> j, frame |-> i], ok)
    \/ \E j \in DOMAIN PoolJobs : ResumeFirst(j)
    \/ \E j \in DOMAIN PoolJobs : AcquireAndSubmit(j)
    \/ \E j \in DOMAIN PoolJobs, i \in 1..MaxFrames : ResumeFrame(j, i)
    \/ \E j \in DOMAIN PoolJobs : GatherReturns(j)
    \/ \E j \in DOMAIN PoolJobs, ok \in BOOLEAN : AssembleReturns(j, ok)

SpecPool == Init /\ [][NextPool]_vars

----------------------------------------------------------------------------
(* The periodic reaper with file cleanup that may fail (app/main.py).  In   *)
(* this specification tasks[0] is the task lifespan creates for             *)
(* _cleanup_loop; shutil.rmtree may raise for either directory of a job.    *)

ReaperTask == [pc |-> "sleeping"]

\* the loop body without its try / except: the exception ends the task
cleanup_loop_body_unguarded(ids, bs, fs, expired, k, at) ==
    IF k = 0
    THEN ReapAll(ids, bs, fs, expired) @@ [pc |-> "sleeping"]
    ELSE LET before == ReapAll(ids, bs, fs, SubSeq(expired, 1, k - 1))
         IN  [ _jobs    |-> before._jobs,
               _batches |-> before._batches,
               files    |-> cleanup_job_raising(before.files, expired[k], at),
               pc       |-> "dead" ]

\* one turn of the while loop after the sleep.  k = 0: no call raises;
\* otherwise cleanup_job raises for the k-th expired job, the jobs before it
\* are reaped, its record and the later jobs stay, and except Exception logs
\* the error and the loop goes back to sleep
cleanup_loop_body(ids, bs, fs, expired, k, at) ==
    IF k = 0
    THEN ReapAll(ids, bs, fs, expired) @@ [pc |-> "sleeping"]
    ELSE LET before == ReapAll(ids, bs, fs, SubSeq(expired, 1, k - 1))
         IN  [ _jobs    |-> before._jobs,
               _batches |-> before._batches,
               files    |-> cleanup_job_raising(before.files, expired[k], at),
               pc       |-> "sleeping" ]

CleanupLoopPass(k, at) ==
    /\ tasks[0].pc = "sleeping"
    /\ LET expired == collect_expired(heap, _jobs, now, CLEANUP_MAX_AGE)
       IN  /\ k <= Len(expired)
           /\ LET pass == cleanup_loop_body(_jobs, _batches, files, expired, k, at)
              IN  /\ _jobs' = pass._jobs
                  /\ _batches' = pass._batches
                  /\ files' = pass.files
                  /\ tasks' = [tasks EXCEPT ![0].pc = pass.pc]
    /\ UNCHANGED <<heap, queues, streams, now, ticks, pools, validated, oauth, poll, handlers>>

InitReaper ==
    /\ heap = << >>
    /\ _jobs = {}
    /\ _batches = << >>
    /\ queues = << >>
    /\ tasks = (0 :> ReaperTask)
    /\ streams = << >>
    /\ files = [uploads |-> {}, jobs |-> {}]
    /\ now = 0
    /\ ticks = 0
    /\ pools = IdlePools
    /\ validated = NotValidated
    /\ oauth = NoOauth
    /\ poll = NotPolling
    /\ handlers = << >>

NextReaper ==
    \/ create_job(GifRequest)
    \/ \E j \in 1..MaxJobs : RunJobStart(j)
    \/ \E j \in 1..MaxJobs : OnProgress(j)
    \/ \E j \in 1..MaxJobs : ProcessorReturns(j)
    \/ \E j \in 1..MaxJobs, e \in ErrorTexts : ProcessorRaises(j, e)
    \/ CleanupLoopPass(0, "uploads")
    \/ \E k \in 1..MaxJobs, at \in RaisesAt : CleanupLoopPass(k, at)
    \/ \E k \in 0..MaxJobs, at \in RaisesAt : manual_cleanup(k, at)
    \/ \E d \in ClockSteps : Tick(d)

\* the loop sleeps CLEANUP_INTERVAL and runs again for as long as the server
\* runs, so a pass in which nothing raises is not put off for ever
SpecReaper ==
    InitReaper /\ [][NextReaper]_vars /\ WF_vars(CleanupLoopPass(0, "uploads"))

----------------------------------------------------------------------------
(* The two tables with the id generator as an input.  Elsewhere every id    *)
(* uuid.uuid4().hex[:12] yields is taken to be new; here it is any value of *)
(* a small id space, and heap is the dict self._jobs itself, keyed by id.   *)

UuidOutcomes == 1..MaxJobs

\* job = Job(id=<uuid>, ...); self._jobs[job.id] = job
CreateWithId(uuid, processor_id, original_filename) ==
    /\ heap' = (uuid :> Job(processor_id, original_filename, now)) @@ heap
    /\ _jobs' = _jobs \cup {uuid}
    /\ UNCHANGED <<_batches, queues>>
    /\ MgrFrame

\* batch = Batch(id=<uuid>, ...); self._batches[batch.id] = batch
CreateBatchWithId(uuid, processor_id, job_ids) ==
    /\ _batches' = (uuid :> [job_ids |-> job_ids, processor_id |-> processor_id,
                             created_at |-> now]) @@ _batches
    /\ UNCHANGED <<heap, _jobs, queues>>
    /\ MgrFrame

NextIds ==
    \/ \E u \in UuidOutcomes, f \in {<< "clip", "MP4" >>, << "upload" >>} :
          CreateWithId(u, "video-to-gif", f)
    \/ \E u \in UuidOutcomes, ids \in MgrJobIdLists :
          CreateBatchWithId(u, "video-to-gif", ids)

SpecIds == Init /\ [][NextIds]_vars

\* every operation of the job manager, called in any order, with the id
\* generator as an input; one sink is subscribed
NextSnapshot ==
    \/ \E u \in UuidOutcomes, f \in {<< "clip", "MP4" >>, << "upload" >>} :
          CreateWithId(u, "video-to-gif", f)
    \/ \E u \in UuidOutcomes : CreateBatchWithId(u, "video-to-gif", << 1, 2 >>)
    \/ \E j \in UuidOutcomes, p \in MgrProgress : MgrUpdateProgress(j, p, "working")
    \/ \E j \in UuidOutcomes : MgrMarkCompleted(j, "jobs/" \o ToString(j) \o "/output.gif")
    \/ \E j \in UuidOutcomes, e \in ErrorTexts : MgrMarkFailed(j, e)
    \/ \E j \in UuidOutcomes : queues = << >> /\ MgrSubscribe(j)
    \/ \E j \in UuidOutcomes, q \in 1..MaxStreams : MgrUnsubscribe(j, q)
    \/ \E j \in UuidOutcomes : MgrRemoveJob(j)

SpecSnapshot == Init /\ [][NextSnapshot]_vars

----------------------------------------------------------------------------
(* _validate_options (app/routers/jobs.py) called on its own: any schema    *)
(* of the shapes the registry uses, and any parsed options object.          *)

\* a dimension option as the processors declare it, and with fields left out
DimensionOpts ==
    { [id |-> "resize", type |-> "dimension", min |-> 16, max |-> 7680,
       allow_original |-> b] : b \in BOOLEAN }
    \cup { [id |-> "resize", type |-> "dimension", min |-> 16, max |-> 7680],
           [id |-> "resize", type |-> "dimension"] }

OtherOpts == { [id |-> "resize", type |-> t] : t \in {"number", "select", "text"} }

ValidatedSchemas ==
    { << o >> : o \in DimensionOpts \cup OtherOpts }
    \cup { << [id |-> "format", type |-> "select"], o >> : o \in DimensionOpts }

JsonValues ==
    { [t |-> "int", v |-> n] : n \in {0, 1, 15, 16, 480, 7680, 7681, 99999, 100000} }
    \cup { [t |-> "str", v |-> x] :
             x \in {"original", "Original", "480", "8", " 480 ", "4_80", "-480",
                    "wide", "480.0", ""} }
    \cup { [t |-> "float", v |-> 480], [t |-> "bool", v |-> TRUE], [t |-> "null", v |-> None] }

ValidatedOptions ==
    { << >>, ("format" :> [t |-> "str", v |-> "jpg"]) }
    \cup { ("resize" :> v) : v \in JsonValues }

\* _validate_options(processor, options) is called
InitValidate ==
    /\ heap = << >>
    /\ _jobs = {}
    /\ _batches = << >>
    /\ queues = << >>
    /\ tasks = << >>
    /\ streams = << >>
    /\ files = [uploads |-> {}, jobs |-> {}]
    /\ now = 0
    /\ ticks = 0
    /\ pools = IdlePools
    /\ oauth = NoOauth
    /\ poll = NotPolling
    /\ handlers = << >>
    /\ \E schema \in ValidatedSchemas, options \in ValidatedOptions :
          validated = [pc |-> "called", schema |-> schema, options |-> options,
                       raised |-> FALSE]

\* the call returns, or raises HTTPException(status_code=400): raised
ValidateReturns ==
    /\ validated.pc = "called"
    /\ validated' = [validated EXCEPT
          !.pc = "returned",
          !.raised = ~_validate_options(validated.schema, validated.options)]
    /\ UNCHANGED <<heap, _jobs, _batches, queues, tasks, streams, files, now, ticks,
                   pools, oauth, poll, handlers>>

SpecValidate == InitValidate /\ [][ValidateReturns]_vars

----------------------------------------------------------------------------
(* Properties of the job lifecycle, checked under Spec *)

Allocated == DOMAIN heap

StatusEdges ==
    { << PENDING, PROCESSING >>, << PROCESSING, COMPLETED >>, << PROCESSING, FAILED >> }

\* C1: in every step of the running server the status of every job either
\* stays as it is or moves along Pending -> Processing, Processing -> Completed
\* or Processing -> Failed; so a Completed or Failed job never changes status.
C1_StatusLattice ==
    [][ \A j \in Allocated :
            \/ heap'[j].status = heap[j].status
            \/ << heap[j].status, heap'[j].status >> \in StatusEdges ]_vars

\* C1 witness: one job has gone Pending -> Processing -> Completed and
\* another Pending -> Processing -> Failed.
C1_Witness ==
    \E j, k \in Allocated :
        /\ heap[j].status = COMPLETED /\ tasks[j].pc = "done"
        /\ heap[k].status = FAILED /\ tasks[k].pc = "done"

\* C2: every Completed job has result_path set, error null and progress 100.
C2_CompletedShape ==
    \A j \in Allocated :
        heap[j].status = COMPLETED =>
            /\ heap[j].result_path # None
            /\ heap[j].error = None
            /\ heap[j].progress = Pct(100)

\* C2 witness: a job whose processor returned is Completed.
C2_Witness ==
    \E j \in Allocated :
        /\ heap[j].status = COMPLETED
        /\ Len(tasks[j].calls) = Len(Script(j))

\* C3: a job whose processor invocation raised is Failed, its error is the
\* message of the error raised and its result_path is unset; and every
\* Failed job has a non-null error.
C3_RaisedMeansFailed ==
    /\ \A j \in DOMAIN tasks :
          tasks[j].raised # None =>
              /\ heap[j].status = FAILED
              /\ heap[j].error = tasks[j].raised
              /\ heap[j].result_path = None
    /\ \A j \in Allocated : heap[j].status = FAILED => heap[j].error # None

\* C3 witness: a processor raised after it had reported progress, and
\* another raised at its invocation.
C3_Witness ==
    \E j, k \in DOMAIN tasks :
        /\ tasks[j].raised # None /\ Len(tasks[j].calls) >= 1
        /\ tasks[k].raised = TypeErrorText /\ tasks[k].calls = << >>

MaxAges == {0, 1, CLEANUP_MAX_AGE, CLEANUP_MAX_AGE + 1}

Expired(max_age_seconds) ==
    { j \in _jobs : /\ heap[j].status \in {COMPLETED, FAILED}
                    /\ heap[j].created_at + max_age_seconds < now }

CollectExact ==
    \A m \in MaxAges :
        LET expired == collect_expired(heap, _jobs, now, m)
        IN  /\ Range(expired) = Expired(m)
            /\ Len(expired) = Cardinality(Expired(m))

InFlight == { j \in _jobs : heap[j].status \in {PENDING, PROCESSING} }

\* C4: collect_expired(max_age) lists exactly the finished jobs created more
\* than max_age seconds before now, each once; and no step of the server, a
\* reaper pass in particular, removes the record, the upload directory or
\* the job directory of a job that is Pending or Processing.
C4_ReaperSparesInFlight ==
    [][ /\ CollectExact
        /\ CollectExact'
        /\ InFlight \subseteq _jobs'
        /\ InFlight \cap files.uploads \subseteq files'.uploads
        /\ InFlight \cap files.jobs \subseteq files'.jobs ]_vars

\* C4 witness: a pass has removed an expired finished job and its files
\* while an equally old job is still in flight, with record and files.
C4_Witness ==
    \E j, k \in Allocated :
        /\ j \notin _jobs /\ j \notin files.uploads /\ j \notin files.jobs
        /\ k \in InFlight /\ heap[k].created_at + CLEANUP_MAX_AGE < now
        /\ heap[k].status = PROCESSING
        /\ k \in files.uploads /\ k \in files.jobs

\* the jobs a batch handler has created
CreatedBy(h) == Range(handlers[h].created)

\* the handler has answered, and with this code
AnsweredWith(h) ==
    IF handlers[h].pc = "done" THEN create_batch_code(handlers[h].r) ELSE 0

\* C5: a submission that is not answered with 200 leaves no job and no batch
\* behind: a rejected or failed POST /jobs and a rejected POST /jobs/batch
\* leave the job table, the job objects, the batch table and the tasks as
\* they were, and none of the jobs a batch handler created is in the table
\* once the handler has failed.
C5_FailedSubmissionCreatesNothing ==
    /\ [][ /\ \A r \in JobRequests :
                 create_job(r) /\ create_job_code(r) # 200 =>
                     UNCHANGED << heap, _jobs, _batches, tasks >>
           /\ \A r \in BatchRequests :
                 create_batch(r) /\ ~create_batch_dispatches(r) =>
                     UNCHANGED << heap, _jobs, _batches, tasks >> ]_vars
    /\ [](\A h \in DOMAIN handlers :
              AnsweredWith(h) = 500 => CreatedBy(h) \cap _jobs = {})

\* a submission to POST /jobs/batch that passes every check, for a processor
\* that does not take all the files in one job
ValidFanOut(r) ==
    /\ Registered(r.processor_id)
    /\ OptionsDecode(r.options)
    /\ _validate_options(get_processor(r.processor_id).options_schema,
                         ParsedOptions(r.options))
    /\ \A i \in DOMAIN r.filenames :
          Ext(r.filenames[i]) \in get_processor(r.processor_id).accepted_extensions
    /\ ~get_processor(r.processor_id).accepts_multiple_files
    /\ r.fail = 0

\* C19: at no moment, however the handler, the jobs' tasks and the reaper
\* interleave, is there a batch none of whose jobs is in the job table any
\* more.  No submission gets to the fan-out loop (C22), so the batch table
\* of the server stays empty and this says nothing about a batch.
C19_NoBatchSurvivesItsMembers ==
    \A b \in DOMAIN _batches :
        \E i \in DOMAIN _batches[b].job_ids : _batches[b].job_ids[i] \in _jobs

\* a submission to POST /jobs/batch that passes every check, for a processor
\* that takes all the files in one job
ValidMultiFile(r) ==
    /\ create_batch_code(r) = 200
    /\ get_processor(r.processor_id).accepts_multiple_files
    /\ Len(r.filenames) >= 1

\* the handler answers in this step
Answers(h) ==
    /\ h \in DOMAIN handlers'
    /\ handlers'[h].pc = "done"
    /\ h \in DOMAIN handlers => handlers[h].pc = "reading"

\* what the claim says of the step in which handler h answers the
\* submission r: one job and no batch, one task started for the job; the
\* task is given as input_paths one path per uploaded file, in submission
\* order, each holding the upload of its position, and as input_path the
\* first of them
RunsOverAllFiles(h, r) ==
    LET job == handlers'[h].created[1]
    IN  /\ Len(handlers'[h].created) = 1
        /\ job \in _jobs'
        /\ _batches' = _batches
        /\ tasks'[job].pc = "spawned"
        /\ Len(tasks'[job].input_paths) = Len(r.filenames)
        /\ tasks'[job].input_path = tasks'[job].input_paths[1]
        /\ \A i \in DOMAIN r.filenames :
              Written(job, r.filenames, tasks'[job].input_paths[i]) = i

\* C20 as stated: a valid submission of N >= 1 files to a multi-file
\* processor creates one job and no batch and runs the processor once over
\* all N uploaded files in submission order.
C20_MultiFileRunsOverAllFiles ==
    [][ \A h \in 1..MaxHandlers :
            Answers(h) /\ ValidMultiFile(handlers'[h].r) =>
                RunsOverAllFiles(h, handlers'[h].r) ]_vars

\* the files of the submission have pairwise different names (a file
\* without a name is saved as "upload")
DistinctNames(r) ==
    \A i, k \in DOMAIN r.filenames :
        i # k => NameOrUpload(r.filenames[i]) # NameOrUpload(r.filenames[k])

\* C20 for distinct names: a valid submission of N >= 1 files with pairwise
\* different names to a multi-file processor creates one job and no batch
\* and runs the processor once over all N uploaded files in submission
\* order.
C20_DistinctFilesRunInOrder ==
    [][ \A h \in 1..MaxHandlers :
            Answers(h) /\ ValidMultiFile(handlers'[h].r) /\ DistinctNames(handlers'[h].r) =>
                RunsOverAllFiles(h, handlers'[h].r) ]_vars

\* C20 witness: a handler has answered 200 to a.pdf, b.pdf for pdf-merge,
\* and the task of its one job has the two uploads in that order.
C20_Witness ==
    \E h \in DOMAIN handlers :
        LET r == handlers[h].r
        IN  /\ handlers[h].pc = "done"
            /\ ValidMultiFile(r) /\ DistinctNames(r)
            /\ Len(r.filenames) = 2
            /\ Len(handlers[h].created) = 1
            /\ handlers[h].created[1] \in DOMAIN tasks
            /\ tasks[handlers[h].created[1]].pc # "none"
            /\ Len(tasks[handlers[h].created[1]].input_paths) = 2
            /\ tasks[handlers[h].created[1]].input_paths[1].name = << "a", "pdf" >>
            /\ tasks[handlers[h].created[1]].input_paths[2].name = << "b", "pdf" >>

\* C21: a valid submission of N >= 1 files to a processor that does not take
\* several files in one job is answered with 200, and when the handler
\* answers it has created N jobs, one per file and each with its own task,
\* and one batch whose job_ids are the ids of those jobs in the order of the
\* files.
C21_FanOutCreatesJobsAndBatch ==
    /\ [](\A r \in BatchRequests :
             ValidFanOut(r) /\ Len(r.filenames) >= 1 => create_batch_code(r) = 200)
    /\ [][ \A h \in 1..MaxHandlers :
               Answers(h) /\ ValidFanOut(handlers'[h].r) =>
                   /\ Len(handlers'[h].created) = Len(handlers'[h].r.filenames)
                   /\ \A j \in Range(handlers'[h].created) :
                         j \in DOMAIN tasks' /\ tasks'[j].pc # "none"
                   /\ \E b \in DOMAIN _batches' \ DOMAIN _batches :
                         _batches'[b].job_ids = handlers'[h].created ]_vars

\* C22: accepts_multiple_files can be read of every registered processor
\* and is false for those that do not declare it, so GET /processors answers
\* 200 with the field for each of them, no batch submission that passes the
\* checks fails at reading it, and a valid batch submission of PNG files to
\* image-convert gets to the fan-out loop.
C22_AcceptsMultipleFilesDefaultsToFalse ==
    /\ \A p \in DOMAIN _PROCESSORS :
          ~get_processor(p).declares_multiple => ~get_processor(p).accepts_multiple_files
    /\ get_processors_code = 200
    /\ \A r \in BatchRequests :
          create_batch_code(r) # 400 => create_batch_dispatches(r)
    /\ \A r \in BatchRequests :
          r.processor_id = "image-convert" /\ ValidFanOut(r) /\ Len(r.filenames) >= 1
                /\ NextHandler <= MaxHandlers =>
              /\ create_batch_code(r) = 200
              /\ ENABLED (create_batch(r) /\ handlers' # handlers)

\* the jobs whose task has ended without the processor's own work failing
WorkSucceeded == { j \in DOMAIN tasks : tasks[j].pc = "done" /\ tasks[j].raised \notin ErrorTexts }

\* C23: a job whose task has ended and whose conversion work did not fail is
\* Completed and has a result; the way _run_job calls the processor makes no
\* job end Failed.
C23_RunnerCallFailsNoJob ==
    \A j \in WorkSucceeded :
        /\ heap[j].status = COMPLETED
        /\ heap[j].result_path # None
        /\ heap[j].error = None

\* the part of a snapshot that is set when the job is created
FixedPart(d) ==
    [ id |-> d.id, processor_id |-> d.processor_id,
      original_filename |-> d.original_filename, created_at |-> d.created_at ]

\* C26: right after a reaper pass that ran to its end, periodic or manual,
\* a second pass with the clock and the jobs as they are finds nothing
\* expired (count 0) and would leave the job table, the batch table and the
\* directories as the first pass left them; and cleaning the files of a job
\* whose directories are gone changes nothing.
C26_ReaperPassIsIdempotent ==
    [][ (manual_cleanup(0, "uploads") \/ _cleanup_loop) =>
            /\ manual_cleanup_removed' = 0
            /\ ReaperPass' = [_jobs |-> _jobs', _batches |-> _batches', files |-> files']
            /\ \A j \in Allocated \ _jobs' : cleanup_job(files', j) = files' ]_vars

\* C26 witness: a pass has removed a job and its directories, and a finished
\* job that is not old enough is still there with its directories.
C26_Witness ==
    \E j \in Allocated \ _jobs, k \in _jobs :
        /\ j \notin files.uploads /\ j \notin files.jobs
        /\ heap[k].status \in {COMPLETED, FAILED}
        /\ k \in files.uploads /\ k \in files.jobs
        /\ manual_cleanup_removed = 0

\* C27: a DELETE /cleanup pass that answers does so with the number of jobs
\* that are finished and older than CLEANUP_MAX_AGE when it starts; exactly
\* those jobs lose their record (GET /jobs/{id} is 404 afterwards) and both
\* their directories; every other job keeps its record and its directories,
\* and no Job object, task or sink is touched.  The files of a job are
\* cleaned before its record is removed: whatever pass removes a record,
\* also one that a failing rmtree ends, leaves no directory of that job.
C27_ManualCleanupRemovesExactlyExpired ==
    [][ /\ manual_cleanup(0, "uploads") =>
              /\ manual_cleanup_removed = Cardinality(Expired(CLEANUP_MAX_AGE))
              /\ _jobs' = _jobs \ Expired(CLEANUP_MAX_AGE)
              /\ files'.uploads = files.uploads \ Expired(CLEANUP_MAX_AGE)
              /\ files'.jobs = files.jobs \ Expired(CLEANUP_MAX_AGE)
              /\ UNCHANGED <<heap, tasks, queues>>
        /\ \A k \in 0..MaxJobs, at \in RaisesAt :
              manual_cleanup(k, at) =>
                  /\ \A j \in _jobs \ _jobs' :
                        j \notin files'.uploads /\ j \notin files'.jobs
                  /\ _jobs \ _jobs' \subseteq Expired(CLEANUP_MAX_AGE)
                  /\ files.uploads \ files'.uploads \subseteq Expired(CLEANUP_MAX_AGE)
                  /\ files.jobs \ files'.jobs \subseteq Expired(CLEANUP_MAX_AGE) ]_vars

\* C27 witness: two finished jobs were old enough and one pass has removed
\* them both, records and directories.
C27_Witness ==
    /\ Cardinality(Allocated) = 2
    /\ _jobs = {}
    /\ files.uploads = {} /\ files.jobs = {}
    /\ \A j \in Allocated : tasks[j].pc = "done"
    /\ \E j \in Allocated : heap[j].status = COMPLETED
    /\ \E j \in Allocated : heap[j].status = FAILED

\* C31: GET /jobs/{id}/result answers 404 for an id with no record, 400 for
\* a job that is not Completed or has no result_path (Pending, Processing,
\* Failed), and serves the artifact (200) only for a Completed job with
\* result_path set; the request changes no job, record, file or queue.
C31_DownloadOnlyWhenCompleted ==
    /\ [](\A id \in 1..MaxJobs + 1 :
            LET code == download_result_code(heap, _jobs, id)
            IN  /\ id \notin _jobs => code = 404
                /\ (id \in _jobs /\ (heap[id].status # COMPLETED
                                      \/ heap[id].result_path = None)) => code = 400
                /\ code = 200 =>
                      /\ id \in _jobs
                      /\ heap[id].status = COMPLETED
                      /\ heap[id].result_path = ResultPath(id))
    /\ [][\A id \in 1..MaxJobs + 1 :
            download_result(id) =>
              UNCHANGED <<heap, _jobs, _batches, files, queues, tasks>>]_vars

\* C31 witness: one job's result is served while another job, Failed, is
\* answered 400 and an id with no record 404.
C31_Witness ==
    /\ \E j \in _jobs : /\ download_result_code(heap, _jobs, j) = 200
                        /\ j \in files.jobs
    /\ \E j \in _jobs : /\ download_result_code(heap, _jobs, j) = 400
                        /\ heap[j].status = FAILED
    /\ download_result_code(heap, _jobs, MaxJobs + 1) = 404

\* C33: the snapshot a successful POST /jobs returns has status pending,
\* progress 0 and neither result nor error: the task the handler spawned
\* has not run when the snapshot is taken.
C33_SubmissionSnapshotIsPending ==
    [][\A r \in JobRequests :
          (create_job(r) /\ create_job_code(r) = 200) =>
             LET snapshot == to_dict(NextId, heap'[NextId])
             IN  /\ snapshot.status = PENDING
                 /\ snapshot.progress = 0
                 /\ snapshot.result_extension = ""
                 /\ snapshot.error = None
                 /\ tasks'[NextId].pc = "spawned"]_vars

\* C33 witness: a submission has been answered while an earlier job's task
\* is already running: the new job is Pending and its task has not started.
C33_Witness ==
    \E j, k \in _jobs :
        /\ j < k
        /\ tasks[j].pc = "running"
        /\ heap[j].status = PROCESSING
        /\ tasks[k].pc = "spawned"
        /\ heap[k].status = PENDING

----------------------------------------------------------------------------
(* Properties of the progress streams, checked under SpecSse *)

Opened == { s \in DOMAIN streams : streams[s].out # << >> }

\* what a stream has delivered after its initial snapshot
Delivered(s) == Tail(streams[s].out)

\* what the sink of a stream was given and the stream has not delivered:
\* the event queue.get() has taken, if any, and the events still queued
Undelivered(s) == streams[s].got \o queues[s]

\* an event that ends a stream: a terminal-status event or the timeout event
IsClosing(e) == e.status \in {COMPLETED, FAILED, "timeout"}

\* the delivered events without the closing event
ProgressPart(d) ==
    IF d # << >> /\ IsClosing(d[Len(d)]) THEN SubSeq(d, 1, Len(d) - 1) ELSE d

Calls(s) == tasks[streams[s].job_id].calls

\* C6 as stated: what a stream has delivered after the snapshot is a prefix
\* of the processor's on_progress calls followed by at most one closing event.
C6_DeliveredIsPrefix ==
    \A s \in Opened :
        LET p == ProgressPart(Delivered(s))
        IN  /\ Len(p) <= Len(Calls(s))
            /\ p = SubSeq(Calls(s), 1, Len(p))

\* C6 amended: what a stream has delivered after the snapshot is, in order
\* and without gap or repetition, the run of on_progress calls that starts
\* with the first call made after the stream's sink was subscribed, followed
\* by at most one closing event (a terminal-status event or the timeout
\* event); the events still queued for the stream continue that run.
C6_DeliveredIsRunSinceSubscribe ==
    \A s \in Opened :
        LET p == ProgressPart(Delivered(s))
            k == streams[s].subscribed_at
            rest == ProgressPart(ProgressPart(Undelivered(s)))
        IN  /\ k + Len(p) <= Len(Calls(s))
            /\ p = SubSeq(Calls(s), k + 1, k + Len(p))
            /\ Len(Delivered(s)) <= Len(p) + 1
            /\ streams[s].pc \in {"open", "waiting", "fetched", "yielded", "expired"} =>
                  /\ p = Delivered(s)
                  /\ rest = SubSeq(Calls(s), k + Len(p) + 1, k + Len(p) + Len(rest))

\* C6 witness: a stream subscribed after the first on_progress call has
\* delivered later calls and then the terminal event.
C6_Witness ==
    \E s \in Opened :
        /\ streams[s].subscribed_at >= 1
        /\ streams[s].pc = "closed"
        /\ Len(ProgressPart(Delivered(s))) >= 2
        /\ Len(Delivered(s)) = Len(ProgressPart(Delivered(s))) + 1
        /\ Delivered(s)[Len(Delivered(s))].status = COMPLETED

TerminalEvents(q) == { i \in DOMAIN q : q[i].status \in {COMPLETED, FAILED} }

\* C7: whenever a sink holds, or a stream has delivered, an event with status
\* completed or failed, the job already has that status, with result_path
\* set if it is completed and error set if it is failed.
C7_TerminalEventAfterTerminalState ==
    \A s \in DOMAIN streams :
        \A e \in Range(Undelivered(s))
                    \cup Range(IF s \in Opened THEN Delivered(s) ELSE << >>) :
            e.status \in {COMPLETED, FAILED} =>
                LET job == heap[streams[s].job_id]
                IN  /\ job.status = e.status
                    /\ e.status = COMPLETED => job.result_path # None /\ job.error = None
                    /\ e.status = FAILED => job.error # None /\ job.result_path = None

\* C7 witness: one sink holds a completed event not yet delivered while
\* another stream has delivered its terminal event; and likewise for failed.
C7_Witness ==
    \E s, t \in DOMAIN streams :
        /\ streams[s].pc \in {"open", "waiting"} /\ TerminalEvents(queues[s]) # {}
        /\ t \in Opened /\ streams[t].pc = "closed"
        /\ TerminalEvents(Delivered(t)) # {}

\* C8 as stated: in the step in which a job becomes Completed or Failed,
\* every sink subscribed at that moment gains exactly one event with
\* terminal status.
C8_OneTerminalEventPerSink ==
    [][ \A j \in Allocated :
            heap[j].status \notin {COMPLETED, FAILED}
               /\ heap'[j].status \in {COMPLETED, FAILED} =>
                  \A q \in Range(heap[j]._listeners) :
                      Cardinality(TerminalEvents(queues'[q]))
                          = Cardinality(TerminalEvents(queues[q])) + 1 ]_vars

\* the progress values of a sequence of events that carry one
RECURSIVE ProgressValues(_)
ProgressValues(d) ==
    IF d = << >> THEN << >>
    ELSE (IF "progress" \in DOMAIN Head(d) THEN << Head(d).progress >> ELSE << >>)
             \o ProgressValues(Tail(d))

\* what video-to-gif reports: 10, 50, 100
Reported == [i \in 1..Len(Script(1)) |-> Round1(Script(1)[i].pct)]

IsPrefix(a, b) == Len(a) <= Len(b) /\ a = SubSeq(b, 1, Len(a))

PendingAtOpen == { s \in Opened : streams[s].out[1].status = PENDING }

\* C9: on a stream opened while the job is Pending, if the processor reports
\* 10, 50, 100 and returns, the progress values of the events delivered
\* after the snapshot and before the closing event are a prefix of 10, 50, 100
\* at any moment, and exactly 10, 50, 100 once the stream has ended without
\* the timeout event.
C9_ProgressValuesExact ==
    \A s \in PendingAtOpen :
        tasks[streams[s].job_id].raised = None =>
            LET d == Delivered(s)
                vals == ProgressValues(ProgressPart(d))
            IN  /\ IsPrefix(vals, Reported)
                /\ streams[s].pc = "closed" /\ TimeoutEvent \notin Range(d) =>
                      vals = Reported

\* C10 as stated: every event a stream delivers after its snapshot was
\* published after the snapshot was taken; the i-th delivered progress event
\* is on_progress call number subscribed_at + i, and the snapshot reflects
\* the first snapshot_at calls.
C10_DeliveredAfterSnapshot ==
    \A s \in Opened :
        \A i \in 1..Len(ProgressPart(Delivered(s))) :
            streams[s].subscribed_at + i > streams[s].snapshot_at

\* the last element of a non-empty sequence
Last(d) == d[Len(d)]

\* everything that has been put into the sink of stream s, in order (a stream
\* that has not taken any event yet has everything still queued)
Published(s) ==
    (IF s \in Opened
     THEN SelectSeq(Delivered(s), LAMBDA e : e # TimeoutEvent) ELSE << >>)
        \o Undelivered(s)

\* C11 as stated: a stream starts with the job's snapshot; what it forwards
\* after it is, in order, what was published to its sink, with nothing after
\* the first event of status completed or failed; a stream that has ended
\* without the timeout event has either forwarded that terminal event or was
\* opened on a job that its snapshot shows as completed or failed, in which
\* case it forwards nothing.
C11_ForwardsUntilTerminalEvent ==
    \A s \in Opened :
        LET d == Delivered(s)
            snapshot == streams[s].out[1]
        IN  /\ "id" \in DOMAIN snapshot
            /\ \A i \in 1..Len(d) - 1 : ~IsClosing(d[i])
            /\ snapshot.status \in {COMPLETED, FAILED} => d = << >>
            /\ streams[s].pc = "closed" /\ TimeoutEvent \notin Range(d) =>
                  \/ snapshot.status \in {COMPLETED, FAILED}
                  \/ d # << >> /\ Last(d).status \in {COMPLETED, FAILED}

\* the sinks still in the listener list of their job
Listening == { s \in DOMAIN streams : s \in Range(heap[streams[s].job_id]._listeners) }

\* C14: whatever any sink holds undelivered, the job's task can always take
\* its next step (the next on_progress call, the return with its terminal
\* notification, or the failure with its notification); every sink still
\* subscribed has received every on_progress call made since it was
\* subscribed, in order; and the terminal step adds to every subscribed sink.
C14_SlowSubscriberBlocksNobody ==
    /\ [](tasks[1].pc = "running" =>
             /\ Len(tasks[1].calls) < Len(Script(1)) => ENABLED OnProgress(1)
             /\ Len(tasks[1].calls) = Len(Script(1)) => ENABLED ProcessorReturns(1)
             /\ \A e \in ErrorTexts : ENABLED ProcessorRaises(1, e))
    /\ [](\A s \in Listening :
             SelectSeq(Published(s), LAMBDA e : e.status = PROCESSING)
                 = SubSeq(Calls(s), streams[s].subscribed_at + 1, Len(Calls(s))))
    /\ [][ heap[1].status \notin {COMPLETED, FAILED}
              /\ heap'[1].status \in {COMPLETED, FAILED} =>
                  \A q \in Range(heap[1]._listeners) :
                      /\ Len(queues'[q]) > Len(queues[q])
                      /\ Last(queues'[q]).status = heap'[1].status ]_vars

\* C14 witness: a sink whose stream never read it holds every event of the
\* job, while another stream has delivered them all and ended.
C14_Witness ==
    \E s, t \in DOMAIN streams :
        /\ streams[s].pc = "subscribed"
        /\ Len(queues[s]) = Len(Script(1)) + 2
        /\ t \in Opened /\ streams[t].pc = "closed"
        /\ streams[t].subscribed_at = 0
        /\ Len(Delivered(t)) = Len(Script(1)) + 1
        /\ Last(Delivered(t)).status = COMPLETED

\* C15: a stream that has ended, for whatever reason, has its sink out of
\* the listener list of its job: the list holds sinks of open streams only.
C15_EndedStreamIsUnsubscribed ==
    \A s \in DOMAIN streams :
        streams[s].pc = "closed" =>
            s \notin Range(heap[streams[s].job_id]._listeners)

----------------------------------------------------------------------------
(* The event loop runs every task that is ready, and a processor invocation *)
(* that does not raise goes on to its next on_progress call or returns.     *)

SpecSseLive ==
    /\ SpecSse
    /\ WF_vars(RunJobStart(1))
    /\ WF_vars(OnProgress(1))
    /\ WF_vars(ProcessorReturns(1))

TimedOut(s) == s \in Opened /\ TimeoutEvent \in Range(Delivered(s))

\* the fields of the job the timeout must not touch
JobFields(j) == << heap[j].status, heap[j].progress, heap[j].result_path, heap[j].error >>

\* the step in which stream s yields its timeout event
TimeoutStep(s) ==
    /\ streams[s].pc = "expired"
    /\ streams'[s].pc = "last"
    /\ Last(streams'[s].out) = TimeoutEvent

\* C12: the timer of a stream fires only while its queue.get() waits on an
\* empty queue; the stream then yields exactly one timeout event, as its last
\* event, and ends; the step in which the timer fires, the step that yields
\* the timeout event and the steps of the stream that follow change neither
\* status, progress, result_path or error of the job nor the position of its
\* task nor the queue of the stream; and after a timeout the job's task
\* still runs to a terminal state.
C12_TimeoutLeavesJobRunning ==
    /\ [][ \A s \in DOMAIN streams :
              /\ streams[s].pc # "expired" /\ streams'[s].pc = "expired" =>
                    /\ Undelivered(s) = << >>
                    /\ streams'[s].out = streams[s].out
                    /\ JobFields(streams[s].job_id)' = JobFields(streams[s].job_id)
                    /\ tasks' = tasks
              /\ streams[s].pc = "expired" /\ streams'[s].pc # "expired" => TimeoutStep(s)
              /\ TimeoutStep(s) =>
                    /\ streams'[s].out = Append(streams[s].out, TimeoutEvent)
                    /\ queues'[s] = queues[s]
                    /\ JobFields(streams[s].job_id)' = JobFields(streams[s].job_id)
                    /\ tasks' = tasks
              /\ TimedOut(s) =>
                    /\ streams'[s].out = streams[s].out
                    /\ streams'[s].pc \in {"last", "closed"}
                    /\ streams'[s].pc # streams[s].pc =>
                          /\ JobFields(streams[s].job_id)' = JobFields(streams[s].job_id)
                          /\ tasks' = tasks ]_vars
    /\ \A s \in 1..MaxStreams :
          TimedOut(s) ~> (tasks[1].pc = "done" /\ heap[1].status \in {COMPLETED, FAILED})

\* C12 witness: a stream timed out while the job was processing and has
\* ended, and the job has completed since.
C12_Witness ==
    \E s \in Opened :
        /\ TimedOut(s)
        /\ streams[s].pc = "closed"
        /\ streams[s].out[1].status = PROCESSING
        /\ Len(Delivered(s)) >= 2
        /\ heap[1].status = COMPLETED

----------------------------------------------------------------------------
(* Properties of the job manager, checked under SpecMgr and SpecBatches *)

\* C13: a call update_progress(job, p, m) on a job of the table sets
\* progress and message, leaves the status and the listener list as they
\* are, and appends the event {round(p, 1), m, the job's status} exactly once
\* to the queue of every sink subscribed when the call started and to no
\* other queue; the call is one step (no put on an unbounded queue waits), so
\* no subscribe or unsubscribe falls between its puts.
C13_UpdateProgressPublishesOnce ==
    [][ \A j \in _jobs, p \in MgrProgress :
            MgrUpdateProgress(j, p, "working") =>
                /\ heap'[j] = [heap[j] EXCEPT !.progress = p, !.message = "working"]
                /\ \A k \in DOMAIN heap \ {j} : heap'[k] = heap[k]
                /\ \A q \in DOMAIN queues :
                      queues'[q] =
                          IF q \in Range(heap[j]._listeners)
                          THEN Append(queues[q],
                                      [ progress |-> Round1(p), message |-> "working",
                                        status |-> heap[j].status ])
                          ELSE queues[q] ]_vars

\* C13 witness: a job with two subscribed sinks, each holding the events of
\* the same two calls, the second made after the job had failed.
C13_Witness ==
    \E j \in _jobs :
        /\ Len(heap[j]._listeners) = 2
        /\ \A q \in Range(heap[j]._listeners) :
              /\ Len(queues[q]) = 2
              /\ queues[q][1].status = PENDING
              /\ queues[q][2].status = FAILED
              /\ queues[q][2].progress = 3670

\* the sinks a job of the table does not track, and the ids of no job
Untracked(j, q) == j \notin _jobs \/ q \notin Range(heap[j]._listeners)

\* C16: unsubscribe with a sink the job does not track, or with the id of a
\* job that is not in the table, can always be called, and it leaves the Job
\* objects with their listener lists, the job table, the sinks and the batch
\* table as they were.
C16_UnsubscribeUntrackedIsNoOp ==
    /\ [](\A j \in MgrIds, q \in 1..MaxStreams : ENABLED MgrUnsubscribe(j, q))
    /\ [][ \A j \in MgrIds, q \in 1..MaxStreams :
              MgrUnsubscribe(j, q) /\ Untracked(j, q) =>
                  UNCHANGED <<heap, _jobs, _batches, queues>> ]_vars

\* C16 witness: a job that was removed from the table while a sink was still
\* in its listener list, and a job of the table that tracks another sink but
\* not that one.
C16_Witness ==
    \E j \in DOMAIN heap \ _jobs, k \in _jobs, q \in DOMAIN queues :
        /\ q \in Range(heap[j]._listeners)
        /\ heap[k]._listeners # << >>
        /\ q \notin Range(heap[k]._listeners)

\* C17: whatever operations of the job manager are called, in whatever order
\* and on whatever job, a job's status changes only along the lattice; in
\* particular mark_completed and mark_failed leave the status of a job that
\* is already Completed or Failed as it is, and move no Pending job.
C17_ManagerKeepsLattice ==
    [][ \A j \in _jobs :
            /\ heap[j].status \in {COMPLETED, FAILED} =>
                  heap'[j].status = heap[j].status
            /\ heap[j].status = PENDING =>
                  heap'[j].status \in {PENDING, PROCESSING}
            /\ heap[j].status = PROCESSING =>
                  heap'[j].status \in {PROCESSING, COMPLETED, FAILED} ]_vars

\* a list without the occurrences of x
Without(list, x) == SelectSeq(list, LAMBDA y : y # x)

\* C18: after remove_job(id), whatever create_batch put in the batch table,
\* id is not in the job table, id occurs in no batch, no batch is empty, and
\* nothing else has changed: the other jobs stay, every batch keeps its other
\* ids in their order, and a batch is gone exactly when it has no other id.
C18_RemoveJobPostcondition ==
    [][ \A j \in MgrIds :
            MgrRemoveJob(j) =>
                /\ _jobs' = _jobs \ {j}
                /\ heap' = heap
                /\ \A b \in DOMAIN _batches' :
                      /\ j \notin Range(_batches'[b].job_ids)
                      /\ _batches'[b].job_ids # << >>
                /\ \A b \in DOMAIN _batches :
                      IF Without(_batches[b].job_ids, j) = << >>
                      THEN b \notin DOMAIN _batches'
                      ELSE /\ b \in DOMAIN _batches'
                           /\ _batches'[b] = [_batches[b] EXCEPT
                                  !.job_ids = Without(_batches[b].job_ids, j)] ]_vars

\* the fields of job j outside the set fields are as they were, every other
\* job is as it was, and no record, batch, listener list or queue has changed
OnlyFieldsChange(j, fields) ==
    /\ DOMAIN heap' = DOMAIN heap
    /\ \A f \in DOMAIN heap[j] \ fields : heap'[j][f] = heap[j][f]
    /\ \A k \in DOMAIN heap \ {j} : heap'[k] = heap[k]
    /\ UNCHANGED <<_jobs, _batches, queues>>

\* C34: mark_completed changes only status, progress, message and
\* result_path of the named job, and mark_failed only status, error and
\* message (progress stays); neither puts an event in a queue nor changes a
\* listener list, another job, the job table or a batch.
C34_MarkActionsFrame ==
    [][\A j \in _jobs :
          /\ MgrMarkCompleted(j, "jobs/" \o ToString(j) \o "/output.gif") =>
                /\ OnlyFieldsChange(j, {"status", "progress", "message", "result_path"})
                /\ heap'[j].status = COMPLETED
                /\ heap'[j].progress = Pct(100)
                /\ heap'[j].message = "Done!"
                /\ heap'[j].result_path = "jobs/" \o ToString(j) \o "/output.gif"
          /\ \A e \in ErrorTexts :
                MgrMarkFailed(j, e) =>
                   /\ OnlyFieldsChange(j, {"status", "error", "message"})
                   /\ heap'[j].status = FAILED
                   /\ heap'[j].error = e
                   /\ heap'[j].message = "Error: " \o e]_vars

\* C34 witness: a job with a subscriber was failed after a progress update
\* and keeps that progress, another with a subscriber was completed, and
\* each subscriber's queue holds the one progress event and nothing more.
C34_Witness ==
    \E j, k \in _jobs :
        /\ heap[j].status = FAILED
        /\ heap[j].progress \in MgrProgress
        /\ heap[j].result_path = None
        /\ heap[k].status = COMPLETED
        /\ heap[k].error = None
        /\ \A i \in {j, k} :
              /\ Len(heap[i]._listeners) = 1
              /\ Len(queues[heap[i]._listeners[1]]) = 1

----------------------------------------------------------------------------
(* Properties of the id generator's use, checked under SpecIds *)

\* C24: whatever the id generator yields, creating a job leaves every job
\* of the table as it was and adds one under an id that was not in use, and
\* creating a batch leaves every batch as it was and adds one under an id
\* that was not in use.
C24_NewIdsAreFresh ==
    [][ /\ \A u \in UuidOutcomes, f \in {<< "clip", "MP4" >>, << "upload" >>} :
              CreateWithId(u, "video-to-gif", f) =>
                  /\ \A j \in _jobs : heap'[j] = heap[j]
                  /\ \E j \in _jobs' \ _jobs : _jobs' = _jobs \cup {j}
        /\ \A u \in UuidOutcomes, ids \in MgrJobIdLists :
              CreateBatchWithId(u, "video-to-gif", ids) =>
                  /\ \A b \in DOMAIN _batches : _batches'[b] = _batches[b]
                  /\ \E b \in DOMAIN _batches' \ DOMAIN _batches :
                        DOMAIN _batches' = DOMAIN _batches \cup {b} ]_vars

----------------------------------------------------------------------------
(* Properties of the snapshot of a job, checked under SpecSnapshot *)

\* the id is in the job table before and after the step, and the id, the
\* processor id, the file name or the creation time of its snapshot changes
Renamed(j) ==
    /\ j \in _jobs /\ j \in _jobs'
    /\ FixedPart(to_dict(j, heap'[j])) # FixedPart(to_dict(j, heap[j]))

\* C25: no operation of the job manager changes the id, the processor id,
\* the file name or the creation time in the snapshot that GET /jobs/{id}
\* returns for an id of the job table: as long as the id is in the table the
\* snapshot differs from the one the submission returned in progress,
\* message, status, result_extension and error only.
C25_CreationFieldsAreFixed ==
    [][ \A j \in UuidOutcomes : ~Renamed(j) ]_vars

\* what holds of the four fields: they change under an id of the table only
\* when create is given that id again by the id generator; progress updates,
\* terminal transitions, subscribe, unsubscribe, create_batch and the
\* removal of other jobs leave them as they are
CreationFieldsChangeOnlyByCollision ==
    [][ \A j \in UuidOutcomes :
            Renamed(j) =>
                \E f \in {<< "clip", "MP4" >>, << "upload" >>} :
                    CreateWithId(j, "video-to-gif", f) ]_vars

----------------------------------------------------------------------------
(* Properties of the periodic reaper, checked under SpecReaper *)

\* C28: the reaper's task never ends, whatever cleanup_job raises; a record
\* is never removed while one of the job's directories is left, so a job a
\* failed pass did not finish with is still in the table and still expired;
\* and every expired job is removed, record and directories, by a later pass.
C28_ReaperNeverDies ==
    /\ [](tasks[0].pc = "sleeping")
    /\ [](\A j \in (DOMAIN heap) \ _jobs : j \notin files.uploads /\ j \notin files.jobs)
    /\ [][ \A j \in Expired(CLEANUP_MAX_AGE) :
              j \in _jobs' => j \in Expired(CLEANUP_MAX_AGE)' ]_vars
    /\ \A j \in 1..MaxJobs :
          (j \in _jobs /\ j \in Expired(CLEANUP_MAX_AGE)) ~>
              (j \notin _jobs /\ j \notin files.uploads /\ j \notin files.jobs)

\* C28 witness: a pass has reaped one expired job and failed on the working
\* directory of the next, whose record and working directory are still there.
C28_Witness ==
    \E j \in _jobs, k \in (DOMAIN heap) \ _jobs :
        /\ j \in Expired(CLEANUP_MAX_AGE)
        /\ j \notin files.uploads /\ j \in files.jobs
        /\ tasks[0].pc = "sleeping"

----------------------------------------------------------------------------
(* Properties of the thread pools, checked under SpecPool *)

\* the heavy operations that pool threads are executing right now
Executing == UNION { pools[m].running : m \in PoolModules }

\* C29: whatever jobs run side by side, of whatever processors, pool
\* threads execute at most _MAX_WORKERS heavy operations at any moment.
C29_OnePoolBoundsAllJobs == Cardinality(Executing) <= _MAX_WORKERS

\* the frames of job j that are submitted to the pool and not finished
InPool(j) == { i \in 1..tasks[j].total :
                  tasks[j].frames[i] \in {"queued", "running"} }

\* the items of job a that the pool runs, or will start, before the k-th
\* item of its work queue
Ahead(m, k, a) ==
    { x \in pools[m].running : x.job = a }
        \cup { pools[m].queue[n] : n \in { n \in 1..(k - 1) : pools[m].queue[n].job = a } }

\* C30: a video-bg-remove job never has more than _MAX_WORKERS of its frames
\* submitted to the pool and unfinished; no frame is run twice; once the job
\* is past its gather, and whenever its assembly has been handed to the pool,
\* every frame has been run once and has finished; and a queued item of one
\* job has at most _MAX_WORKERS items of any other job before it, so it does
\* not wait for all the frames of that job.
C30_FramesThrottledPerJob ==
    /\ \A j \in DOMAIN tasks :
          /\ Cardinality(InPool(j)) <= _MAX_WORKERS
          /\ \A i \in 1..MaxFrames : tasks[j].ran[i] <= 1
          /\ (tasks[j].pc \in {"assemble", "done"} \/ tasks[j].frames[Assembly] # "none") =>
                \A i \in 1..tasks[j].total :
                    tasks[j].ran[i] = 1 /\ tasks[j].frames[i] = "done"
    /\ \A m \in PoolModules :
          \A k \in DOMAIN pools[m].queue, a \in DOMAIN tasks :
              a # pools[m].queue[k].job =>
                  Cardinality(Ahead(m, k, a)) <= _MAX_WORKERS

\* C30 witness: the first job, started first, holds the pool with as many
\* frames as it may and still has a frame it has not submitted, while a frame
\* of the second job has already been run and finished.
C30_Witness ==
    /\ {1, 2} \subseteq DOMAIN tasks
    /\ tasks[1].pc = "frames" /\ tasks[2].pc = "frames"
    /\ Cardinality(InPool(1)) = _MAX_WORKERS
    /\ tasks[1].frames[MaxFrames] = "new"
    /\ tasks[2].frames[1] = "done"
    /\ \E k \in DOMAIN pools["video_bg_remove"].queue :
          pools["video_bg_remove"].queue[k].job = 2

----------------------------------------------------------------------------
(* Properties of the option validation, checked under SpecValidate *)

\* the dimension options of the schema the call was given
DimensionsOf(schema) == { i \in DOMAIN schema : schema[i].type = "dimension" }

InRange(opt, n) == OptGet(opt, "min", 1) <= n /\ n <= OptGet(opt, "max", 99999)

IsOriginal(opt, v) ==
    v.t = "str" /\ v.v = "original" /\ OptGet(opt, "allow_original", FALSE)

\* C32 as stated: a call is accepted exactly when, for every dimension
\* option, the submitted value is absent, or is "original" with
\* allow_original, or is an integer within [min, max]; anything else is
\* answered 400, and number, select and text options reject nothing.
C32_DimensionAcceptsExactlyIntegers ==
    validated.pc = "returned" =>
        ~validated.raised <=>
              \A i \in DimensionsOf(validated.schema) :
                 LET opt == validated.schema[i]
                 IN  \/ opt.id \notin DOMAIN validated.options
                     \/ IsOriginal(opt, validated.options[opt.id])
                     \/ /\ validated.options[opt.id].t = "int"
                        /\ InRange(opt, validated.options[opt.id].v)

\* C32 as the code has it: the value is read as text, so besides a missing
\* value a JSON null is let through, and besides a JSON integer any string
\* int() reads ("480", " 480 ", "4_80") is taken when it lies in [min, max].
C32_DimensionAcceptsIntegerText ==
    validated.pc = "returned" =>
        ~validated.raised <=>
              \A i \in DimensionsOf(validated.schema) :
                 LET opt == validated.schema[i]
                 IN  \/ opt.id \notin DOMAIN validated.options
                     \/ validated.options[opt.id].t = "null"
                     \/ IsOriginal(opt, validated.options[opt.id])
                     \/ /\ validated.options[opt.id].t = "int"
                        /\ InRange(opt, validated.options[opt.id].v)
                     \/ /\ validated.options[opt.id].t = "str"
                        /\ validated.options[opt.id].v \in DOMAIN IntTexts
                        /\ InRange(opt, IntTexts[validated.options[opt.id].v])

\* C32 witness: the string "480" was submitted for a dimension option and
\* the call returned without raising.
C32_Witness ==
    /\ validated.pc = "returned"
    /\ ~validated.raised
    /\ DimensionsOf(validated.schema) # {}
    /\ "resize" \in DOMAIN validated.options
    /\ validated.options["resize"].t = "str"
    /\ validated.options["resize"].v = "480"

----------------------------------------------------------------------------
(* Properties of the progress of video-bg-remove, checked under SpecPool *)

\* the frame events among the on_progress calls made so far
FrameCalls(j) == SelectSeq(tasks[j].calls, LAMBDA c : c.frame # 0)

\* C35: whatever the order in which the frames of a video-bg-remove job
\* finish in the pool, the percents passed to on_progress never go down and
\* lie within 0..100, and the k-th frame event carries the counter k; when
\* process() has returned there is one frame event per frame.
C35_FrameProgressIsMonotone ==
    \A j \in DOMAIN tasks :
        tasks[j].module = "video_bg_remove" =>
           /\ \A n \in DOMAIN tasks[j].calls :
                 /\ 0 <= tasks[j].calls[n].pct /\ tasks[j].calls[n].pct <= Pct(100)
                 /\ n > 1 => tasks[j].calls[n - 1].pct <= tasks[j].calls[n].pct
           /\ \A k \in DOMAIN FrameCalls(j) : FrameCalls(j)[k].frame = k
           /\ tasks[j].pc = "done" => Len(FrameCalls(j)) = tasks[j].total

\* C35 witness: the second frame of a job finished and reported before the
\* first, which is still in the pool: the one frame event so far counts 1.
C35_Witness ==
    \E j \in DOMAIN tasks :
        /\ tasks[j].module = "video_bg_remove"
        /\ tasks[j].frames[2] = "done"
        /\ tasks[j].frames[1] = "running"
        /\ Len(FrameCalls(j)) = 1
        /\ FrameCalls(j)[1].frame = 1

----------------------------------------------------------------------------
(* The running server with an event loop that runs every task that is       *)
(* ready, processor invocations that go on to their next on_progress call,  *)
(* return, or (called with an argument too many) raise at once, and reads   *)
(* of uploaded files that return or raise.                                  *)

SpecLive ==
    /\ Spec
    /\ \A j \in 1..MaxJobs :
          /\ WF_vars(RunJobStart(j))
          /\ WF_vars(OnProgress(j))
          /\ WF_vars(ProcessorReturns(j))
          /\ WF_vars(ProcessorRaises(j, TypeErrorText))
    /\ \A h \in 1..MaxHandlers : WF_vars(create_batch_resumes(h))

\* a job whose submission was answered 200 (its task was spawned) ends
\* Completed or Failed
SpawnedJobsFinish ==
    \A j \in 1..MaxJobs :
        (j \in DOMAIN tasks /\ tasks[j].pc # "none")
            ~> (j \in DOMAIN heap /\ heap[j].status \in Terminal)

\* C36: every job the HTTP surface creates eventually is Completed or
\* Failed, given that its processor invocation returns or raises; none stays
\* Pending or Processing for ever.
C36_EveryJobFinishes ==
    \A j \in 1..MaxJobs :
        (j \in DOMAIN heap) ~> (j \in DOMAIN heap /\ heap[j].status \in Terminal)

----------------------------------------------------------------------------
(* The OAuth callback listener (app/routers/oauth.py), a single process on  *)
(* CPython 3.11.  Whether something outside the servers of this process     *)
(* holds CALLBACK_PORT is an input of the steps that bind it.               *)
(* oauth._pending is the dict of flows (state -> code, None while           *)
(* waiting).  oauth.runs                                                    *)
(* lists the tasks that oauth_start has made of _run_callback_server, in    *)
(* the order of their creation; oauth._server_task and                      *)
(* oauth._shutdown_event are the globals, as the number of the run that is  *)
(* the task, or that created the event (0 for None).  A run is              *)
(*   pc     "created"    the task has not run yet                           *)
(*          "waiting"    in wait_for(_shutdown_event.wait(), 300)           *)
(*          "expired"    the timer of wait_for has fired; wait_for cancels  *)
(*                       the task that waits for the event and waits for    *)
(*                       its end                                            *)
(*          "sleeping"   in asyncio.sleep(1)                                *)
(*          "exiting"    should_exit is set, in `await serve_task`          *)
(*          "cancelling" cancelled by /oauth/stop where it is suspended     *)
(*                       (before its first step, in wait_for once the       *)
(*                       timer has fired, in the sleep, in `await           *)
(*                       serve_task` after the serve task has ended),       *)
(*                       CancelledError not raised in it yet                *)
(*          "cancelling serve"  cancelled in `await serve_task`, which      *)
(*                       cancels the serve task, still running              *)
(*          "done", "cancelled"  the task has ended                         *)
(*   event  the asyncio.Event the run created: "none", "unset", "set"       *)
(*   serve  the task of server.serve(): "none", "created" (has not bound    *)
(*          the port yet), "up" (listens on the port and answers),          *)
(*          "down" (has closed its sockets)                                 *)
(*   stoppers  the /oauth/stop handlers suspended in `await _server_task`   *)
(*          on this run                                                     *)
(* oauth.exited says that server.serve() could not bind the port and has    *)
(* called sys.exit(1), which ends the event loop and the process.           *)
(* oauth.received lists the answers of /oauth/poll that carried a code,     *)
(* oauth.starts the states of the /oauth/start calls answered "listening".  *)

MaxStarts == 3

\* /oauth/stop handlers suspended at a time
MaxStops == 1

OauthStates == {"s1", "s2"}

Codes == {"c1", "c2"}

\* a query parameter that is missing or empty
Missing == ""

Runs == DOMAIN oauth.runs

\* task.done()
Ended(r) == oauth.runs[r].pc \in {"done", "cancelled"}

\* a task of _run_callback_server that has not ended
TaskRunning == \E r \in Runs : ~Ended(r)

\* a callback server of this process listens on CALLBACK_PORT
ServerUp == \E r \in Runs : oauth.runs[r].serve = "up"

\* _port_is_free(CALLBACK_PORT): a socket can be bound to the port.  It
\* cannot while a server of this process listens on it, nor while the
\* operating system holds the port for another reason (held: another
\* process listens on it, or a connection a server of this process has
\* closed is in TIME_WAIT).
_port_is_free(held) == ~held /\ ~ServerUp

\* _shutdown_event.set(), if there is an event
SetEvent(runs, e) == IF e = 0 THEN runs ELSE [runs EXCEPT ![e].event = "set"]

OauthFrame ==
    UNCHANGED <<heap, _jobs, _batches, queues, tasks, streams, files, now, ticks,
                pools, validated, poll, handlers>>

InitOauth ==
    /\ heap = << >>
    /\ _jobs = {}
    /\ _batches = << >>
    /\ queues = << >>
    /\ tasks = << >>
    /\ streams = << >>
    /\ files = [uploads |-> {}, jobs |-> {}]
    /\ now = 0
    /\ ticks = 0
    /\ pools = IdlePools
    /\ validated = NotValidated
    /\ poll = NotPolling
    /\ handlers = << >>
    /\ oauth = [ _pending |-> << >>, _server_task |-> 0, _shutdown_event |-> 0,
                 runs |-> << >>, exited |-> FALSE,
                 received |-> << >>, starts |-> << >> ]

\* POST /oauth/start with body.state = state
oauth_start(state, held) ==
    /\ ~oauth.exited
    /\ Len(oauth.starts) < MaxStarts
    /\ IF oauth._server_task # 0 /\ ~Ended(oauth._server_task)
       THEN oauth' = [oauth EXCEPT !._pending = (state :> None) @@ @,
                                   !.starts = Append(@, state)]
       ELSE IF ~_port_is_free(held)
       THEN UNCHANGED oauth
       ELSE oauth' = [oauth EXCEPT
               !._pending = (state :> None) @@ @,
               !.runs = Append(@, [pc |-> "created", event |-> "none",
                                   serve |-> "none", stoppers |-> 0]),
               !._server_task = Len(oauth.runs) + 1,
               !.starts = Append(@, state)]
    /\ OauthFrame

\* _run_callback_server from its start to its wait_for: a new
\* _shutdown_event, and a task is made of server.serve()
RunCallbackServer(r) ==
    /\ ~oauth.exited
    /\ r \in Runs
    /\ oauth.runs[r].pc = "created"
    /\ oauth' = [oauth EXCEPT !.runs[r].pc = "waiting",
                              !.runs[r].event = "unset",
                              !.runs[r].serve = "created",
                              !._shutdown_event = r]
    /\ OauthFrame

\* the task of server.serve() starts up: it binds CALLBACK_PORT and
\* listens, or, the port being in use (by a server of this process, or,
\* held, by another process), logs the error and calls sys.exit(1)
ServeStarts(r, held) ==
    /\ ~oauth.exited
    /\ r \in Runs
    /\ oauth.runs[r].serve = "created"
    /\ oauth' = IF _port_is_free(held)
                THEN [oauth EXCEPT !.runs[r].serve = "up"]
                ELSE [oauth EXCEPT !.exited = TRUE]
    /\ OauthFrame

\* GET /auth/callback, answered by a callback server that listens
_handle_callback(code, state, error) ==
    /\ ~oauth.exited
    /\ ServerUp
    /\ IF error # Missing \/ code = Missing \/ state = Missing
          \/ state \notin DOMAIN oauth._pending
       THEN UNCHANGED oauth
       ELSE oauth' = [oauth EXCEPT !._pending = (state :> code) @@ @,
                                   !.runs = SetEvent(@, oauth._shutdown_event)]
    /\ OauthFrame

\* wait_for returns: the event is set and the task that waited for it has
\* ended (also when a cancellation resumes wait_for: `except CancelledError:
\* if fut.done(): return fut.result()`)
ShutdownSeen(r) ==
    /\ ~oauth.exited
    /\ r \in Runs
    /\ oauth.runs[r].pc = "waiting"
    /\ oauth.runs[r].event = "set"
    /\ oauth' = [oauth EXCEPT !.runs[r].pc = "sleeping"]
    /\ OauthFrame

\* the timer of wait_for fires after TIMEOUT_SECONDS and resumes wait_for
\* ahead of the task that waits for the event, set or not: wait_for cancels
\* that task and waits for its end
ListenerTimerFires(r) ==
    /\ ~oauth.exited
    /\ r \in Runs
    /\ oauth.runs[r].pc = "waiting"
    /\ oauth' = [oauth EXCEPT !.runs[r].pc = "expired"]
    /\ OauthFrame

\* wait_for raises TimeoutError, whatever has happened to the event since
\* the timer fired: _pending.clear()
ListenerTimeout(r) ==
    /\ ~oauth.exited
    /\ r \in Runs
    /\ oauth.runs[r].pc = "expired"
    /\ oauth' = [oauth EXCEPT !.runs[r].pc = "sleeping", !._pending = << >>]
    /\ OauthFrame

\* after asyncio.sleep(1): server.should_exit = True, and the run is
\* suspended in `await serve_task`.  The serve task, made before the wait,
\* has started up long before the sleep is over.
ShouldExit(r) ==
    /\ ~oauth.exited
    /\ r \in Runs
    /\ oauth.runs[r].pc = "sleeping"
    /\ oauth.runs[r].serve # "created"
    /\ oauth' = [oauth EXCEPT !.runs[r].pc = "exiting"]
    /\ OauthFrame

\* the server sees should_exit, closes its sockets and serve() returns
ServerExits(r) ==
    /\ ~oauth.exited
    /\ r \in Runs
    /\ oauth.runs[r].pc = "exiting"
    /\ oauth.runs[r].serve = "up"
    /\ oauth' = [oauth EXCEPT !.runs[r].serve = "down"]
    /\ OauthFrame

\* `await serve_task` returns and _run_callback_server ends
RunReturns(r) ==
    /\ ~oauth.exited
    /\ r \in Runs
    /\ oauth.runs[r].pc = "exiting"
    /\ oauth.runs[r].serve = "down"
    /\ oauth' = [oauth EXCEPT !.runs[r].pc = "done"]
    /\ OauthFrame

\* a run cancelled in `await serve_task` has cancelled the serve task.
\* Cancelled in its shutdown, the server has closed its sockets when the
\* serve task ends; cancelled in its main loop it leaves them open, and the
\* end of the serve task changes nothing.
ServeCloses(r) ==
    /\ ~oauth.exited
    /\ r \in Runs
    /\ oauth.runs[r].pc = "cancelling serve"
    /\ oauth.runs[r].serve = "up"
    /\ oauth' = [oauth EXCEPT !.runs[r].serve = "down"]
    /\ OauthFrame

\* CancelledError is raised in the run where it is suspended and ends it.
\* Nothing stops the server the run has started.
TaskCancelled(r) ==
    /\ ~oauth.exited
    /\ r \in Runs
    /\ oauth.runs[r].pc \in {"cancelling", "cancelling serve"}
    /\ oauth' = [oauth EXCEPT !.runs[r].pc = "cancelled"]
    /\ OauthFrame

\* how many times /oauth/start has registered the state
Registrations(state) == Cardinality({ n \in DOMAIN oauth.starts : oauth.starts[n] = state })

\* oauth_poll that hands the code out and keeps the entry
oauth_poll_keeps_entry(state) ==
    /\ ~oauth.exited
    /\ IF state \notin DOMAIN oauth._pending \/ oauth._pending[state] = None
       THEN UNCHANGED oauth
       ELSE /\ Len(oauth.received) < MaxStarts
            /\ oauth' = [oauth EXCEPT
                  !.received = Append(@, [state |-> state, code |-> oauth._pending[state],
                                          starts |-> Registrations(state)])]
    /\ OauthFrame

\* GET /oauth/poll/{state}: 404, "waiting", or "received" with the code
oauth_poll(state) ==
    /\ ~oauth.exited
    /\ IF state \notin DOMAIN oauth._pending \/ oauth._pending[state] = None
       THEN UNCHANGED oauth
       ELSE oauth' = [oauth EXCEPT
               !._pending = [x \in DOMAIN @ \ {state} |-> @[x]],
               !.received = Append(@, [state |-> state, code |-> oauth._pending[state],
                                       starts |-> Registrations(state)])]
    /\ OauthFrame

\* the /oauth/stop handlers suspended in `await _server_task`
Stoppers == { x \in Runs \X (1..MaxStops) : x[2] <= oauth.runs[x[1]].stoppers }

\* where _server_task.cancel() leaves a run.  A run in wait_for whose
\* wake-up is not due yet: the event has just been set, so the task that
\* waits for it ends before the cancellation resumes wait_for, which then
\* returns; the run goes on to its sleep as after a callback.  A run in
\* wait_for whose timer has fired and which has not been resumed yet
\* (timer): it is resumed with CancelledError ahead of the task that waits
\* for the event, and wait_for cancels that task and re-raises.  A run that
\* has not started, or is in wait_for after the timer or in the sleep, is
\* ended by CancelledError at its next step; a run in `await serve_task`
\* passes the cancellation on to the serve task, if that has not ended.
Cancel(run, timer) ==
    [run EXCEPT !.pc = IF run.pc = "waiting" /\ run.event = "set" /\ ~timer THEN "waiting"
                       ELSE IF run.pc = "exiting" /\ run.serve = "up" THEN "cancelling serve"
                       ELSE IF run.pc \in {"cancelling", "cancelling serve"} THEN @
                       ELSE "cancelling",
                !.stoppers = @ + 1]

\* POST /oauth/stop up to `await _server_task`, and to its end if there is
\* no task to wait for
oauth_stop(timer) ==
    /\ ~oauth.exited
    /\ LET t == oauth._server_task
           runs == SetEvent(oauth.runs, oauth._shutdown_event)
       IN  IF t # 0 /\ ~Ended(t)
           THEN /\ Cardinality(Stoppers) < MaxStops
                /\ timer => oauth.runs[t].pc = "waiting"
                /\ oauth' = [oauth EXCEPT !._pending = << >>,
                                          !.runs = [runs EXCEPT ![t] = Cancel(runs[t], timer)]]
           ELSE /\ ~timer
                /\ oauth' = [oauth EXCEPT !._pending = << >>,
                                          !.runs = runs,
                                          !._server_task = 0]
    /\ OauthFrame

\* the task has ended, cancelled or not: oauth_stop resumes from `await
\* _server_task`, sets _server_task = None and answers "stopped"
oauth_stop_resumes(r) ==
    /\ ~oauth.exited
    /\ r \in Runs
    /\ oauth.runs[r].stoppers > 0
    /\ Ended(r)
    /\ oauth' = [oauth EXCEPT !.runs[r].stoppers = @ - 1, !._server_task = 0]
    /\ OauthFrame

NextOauth ==
    \/ \E state \in OauthStates, held \in BOOLEAN : oauth_start(state, held)
    \/ \E r \in 1..MaxStarts : RunCallbackServer(r)
    \/ \E r \in 1..MaxStarts, held \in BOOLEAN : ServeStarts(r, held)
    \/ \E code \in Codes \cup {Missing}, state \in OauthStates \cup {Missing},
          error \in {Missing, "access_denied"} : _handle_callback(code, state, error)
    \/ \E r \in 1..MaxStarts : ShutdownSeen(r)
    \/ \E r \in 1..MaxStarts : ListenerTimerFires(r)
    \/ \E r \in 1..MaxStarts : ListenerTimeout(r)
    \/ \E r \in 1..MaxStarts : ShouldExit(r)
    \/ \E r \in 1..MaxStarts : ServerExits(r)
    \/ \E r \in 1..MaxStarts : RunReturns(r)
    \/ \E r \in 1..MaxStarts : ServeCloses(r)
    \/ \E r \in 1..MaxStarts : TaskCancelled(r)
    \/ \E state \in OauthStates : oauth_poll(state)
    \/ \E timer \in BOOLEAN : oauth_stop(timer)
    \/ \E r \in 1..MaxStarts : oauth_stop_resumes(r)

SpecOauth == InitOauth /\ [][NextOauth]_vars

----------------------------------------------------------------------------
(* Properties of the OAuth callback listener, checked under SpecOauth *)

\* the flows /oauth/poll answers "waiting" for
Waiting == { s \in DOMAIN oauth._pending : oauth._pending[s] = None }

\* C37: a state that /oauth/start answered "listening" for and that is
\* still waiting always has a listener task alive (created, waiting for
\* the callback, or winding down): it is never left waiting after the
\* listener has gone.
C37_WaitingStateHasListener ==
    Waiting # {} => TaskRunning

\* the answers of /oauth/poll that handed out a code for the state
Received(state) == SelectSeq(oauth.received, LAMBDA r : r.state = state)

\* C38 as stated: for each state /oauth/poll answers "received" at most once.
C38_ReceivedOncePerState ==
    \A state \in OauthStates : Len(Received(state)) <= 1

\* C38 for a state that may be registered again: each registration of a
\* state by /oauth/start yields at most one "received" answer; the answer
\* carries the stored code and removes the state, so the next poll gives
\* 404 and a repeated callback is rejected until /oauth/start registers the
\* state anew; a state that was never registered never holds a code.
C38_ReceivedOncePerRegistration ==
    /\ [](\A state \in OauthStates :
            /\ Len(Received(state)) <= Registrations(state)
            /\ \A m, n \in DOMAIN Received(state) :
                  m < n => Received(state)[m].starts < Received(state)[n].starts
            /\ state \in DOMAIN oauth._pending => Registrations(state) > 0)
    /\ [][\A state \in OauthStates :
            oauth'.received # oauth.received /\ Len(Received(state)') > Len(Received(state)) =>
               /\ state \in DOMAIN oauth._pending
               /\ oauth._pending[state] \in Codes
               /\ Received(state)'[Len(Received(state)')].code = oauth._pending[state]
               /\ state \notin DOMAIN oauth'._pending]_vars

\* C38 witness: the same state was registered, called back and polled twice:
\* two codes were handed out for it, one per registration, and the state is
\* unknown again.
C38_Witness ==
    \E state \in OauthStates :
        /\ Len(Received(state)) = 2
        /\ Registrations(state) = 2
        /\ state \notin DOMAIN oauth._pending

----------------------------------------------------------------------------
(* The MCP client's _poll_job (services/mcp/server.py).  poll.pc is where   *)
(* the call is: "called" (not run yet), "requesting" (suspended in `await   *)
(* client.get(...)`), "sleeping" (suspended in `await                       *)
(* asyncio.sleep(POLL_INTERVAL)`), "returned", "raised".  poll.elapsed,     *)
(* poll.consecutive_errors and poll.last_status are the locals of the call; *)
(* poll.rounds counts the GET /jobs/{job_id} requests made, poll.streak the *)
(* transient errors since the last answered request, poll.response is what  *)
(* the last request met, and poll.outcome how the call ended.               *)

POLL_INTERVAL == 2

POLL_TIMEOUT == 300

MAX_POLL_RETRIES == 5

\* the errors of client.get that the loop catches: httpx.TimeoutException,
\* httpx.ConnectError, httpx.ReadError
Transient == {"transient_error"}

\* what else ends the try block with an exception, which nothing catches:
\* another httpx error raised by client.get (RemoteProtocolError,
\* WriteError, ...), the HTTPStatusError of raise_for_status for an error
\* status, the ValueError of resp.json() for a body that is not JSON
Uncaught ==
    [ transport_error |-> "httpx.TransportError",
      http_error      |-> "HTTPStatusError",
      invalid_json    |-> "ValueError" ]

\* the JSON values of a 2xx answer: an object with the given status
\* ("unknown": an object without the key "status"; "other": any other value
\* of the key), or a value that is not an object, for which job.get raises
\* AttributeError
JsonAnswers == {PENDING, PROCESSING, COMPLETED, FAILED, "unknown", "other", "not_an_object"}

\* what a request can meet
PollResponses == JsonAnswers \cup Transient \cup DOMAIN Uncaught

\* _poll_job has been called and has not run yet
InitPoll ==
    /\ heap = << >>
    /\ _jobs = {}
    /\ _batches = << >>
    /\ queues = << >>
    /\ tasks = << >>
    /\ streams = << >>
    /\ files = [uploads |-> {}, jobs |-> {}]
    /\ now = 0
    /\ ticks = 0
    /\ pools = IdlePools
    /\ validated = NotValidated
    /\ oauth = NoOauth
    /\ handlers = << >>
    /\ poll = [ pc |-> "called", elapsed |-> 0, consecutive_errors |-> 0,
                last_status |-> "unknown", rounds |-> 0, streak |-> 0,
                response |-> None, outcome |-> None ]

PollFrame ==
    UNCHANGED <<heap, _jobs, _batches, queues, tasks, streams, files, now, ticks,
                pools, validated, oauth, handlers>>

\* consecutive_errors that a successful poll leaves as it is
ErrorsAfter_never_reset(consecutive_errors, response) ==
    IF response \in Transient THEN consecutive_errors + 1 ELSE consecutive_errors

\* consecutive_errors after the try statement: 0 after resp.json() has
\* returned, one more after a transient error, unchanged if the try block
\* raised something else
ErrorsAfter(consecutive_errors, response) ==
    IF response \in Transient THEN consecutive_errors + 1
    ELSE IF response \in DOMAIN Uncaught THEN consecutive_errors
    ELSE 0

\* the head of the while loop: the next request if elapsed < POLL_TIMEOUT,
\* else RuntimeError("Processing timed out ...")
LoopHead(p) ==
    IF p.elapsed < POLL_TIMEOUT
    THEN [p EXCEPT !.pc = "requesting", !.rounds = @ + 1]
    ELSE [p EXCEPT !.pc = "raised", !.outcome = "Processing timed out"]

\* the call starts: the locals are set and the first request is made
_poll_job ==
    /\ poll.pc = "called"
    /\ poll' = LoopHead([poll EXCEPT !.elapsed = 0, !.consecutive_errors = 0,
                                     !.last_status = "unknown"])
    /\ PollFrame

\* client.get ends, with a response or an exception: the rest of the pass,
\* up to the sleep or to the end of the call
PollRound(response) ==
    /\ poll.pc = "requesting"
    /\ LET errors == ErrorsAfter(poll.consecutive_errors, response)
           asked == [poll EXCEPT
                       !.response = response,
                       !.consecutive_errors = errors,
                       !.streak = IF response \in Transient THEN @ + 1 ELSE 0]
       IN  poll' =
             IF response \in DOMAIN Uncaught
             THEN [asked EXCEPT !.pc = "raised", !.outcome = Uncaught[response]]
             ELSE IF response \in Transient
             THEN IF errors >= MAX_POLL_RETRIES
                  THEN [asked EXCEPT !.pc = "raised", !.outcome = "Lost connection"]
                  ELSE [asked EXCEPT !.pc = "sleeping"]
             ELSE IF response = "not_an_object"
             THEN [asked EXCEPT !.pc = "raised", !.outcome = "AttributeError"]
             ELSE IF response = COMPLETED
             THEN [asked EXCEPT !.last_status = response,
                                !.pc = "returned", !.outcome = COMPLETED]
             ELSE IF response = FAILED
             THEN [asked EXCEPT !.last_status = response,
                                !.pc = "raised", !.outcome = "Processing failed"]
             ELSE [asked EXCEPT !.last_status = response, !.pc = "sleeping"]
    /\ PollFrame

\* asyncio.sleep(POLL_INTERVAL) ends: elapsed += POLL_INTERVAL, and the
\* head of the loop
PollSleepEnds ==
    /\ poll.pc = "sleeping"
    /\ poll' = LoopHead([poll EXCEPT !.elapsed = @ + POLL_INTERVAL])
    /\ PollFrame

\* the task that runs the call is cancelled before its first step or where
\* it is suspended: CancelledError, which the loop does not catch
PollCancelled ==
    /\ poll.pc \in {"called", "requesting", "sleeping"}
    /\ poll' = [poll EXCEPT !.pc = "raised", !.outcome = "CancelledError"]
    /\ PollFrame

\* the steps of the call itself
PollStep ==
    \/ _poll_job
    \/ \E response \in PollResponses : PollRound(response)
    \/ PollSleepEnds

NextPoll ==
    \/ PollStep
    \/ PollCancelled

\* the call is run, every request is answered or fails (the client has
\* timeouts), and the sleep between two requests ends
SpecPoll == InitPoll /\ [][NextPoll]_vars /\ WF_vars(PollStep)

----------------------------------------------------------------------------
(* Properties of _poll_job, checked under SpecPoll *)

PollEnded == poll.pc \in {"returned", "raised"}

\* the call ends, within POLL_TIMEOUT / POLL_INTERVAL requests, and a
\* run of MAX_POLL_RETRIES transient errors ends it at once while a shorter
\* run followed by an answer does not
PollTerminates ==
    /\ [](/\ poll.rounds <= POLL_TIMEOUT \div POLL_INTERVAL
          /\ ~PollEnded => poll.streak < MAX_POLL_RETRIES
          /\ poll.streak = MAX_POLL_RETRIES <=> poll.outcome = "Lost connection"
          /\ poll.outcome = COMPLETED <=> poll.pc = "returned"
          /\ poll.pc = "returned" => poll.response = COMPLETED
          /\ poll.outcome = "Processing failed" => poll.response = FAILED
          /\ poll.outcome = "Processing timed out" =>
                /\ poll.rounds = POLL_TIMEOUT \div POLL_INTERVAL
                /\ poll.response \in (JsonAnswers \ {COMPLETED, FAILED, "not_an_object"})
                                         \cup Transient
                /\ poll.streak < MAX_POLL_RETRIES)
    /\ <>PollEnded

\* C39 as stated: _poll_job ends within 150 rounds, and in one of four
\* ways: it returns a completed job, raises for a failed job, raises after
\* 5 consecutive transient errors, and otherwise raises the timeout error.
C39_PollEndsInFourWays ==
    /\ PollTerminates
    /\ [](PollEnded =>
            poll.outcome \in {COMPLETED, "Processing failed", "Lost connection",
                              "Processing timed out"})

\* C39 with the other ways to end: _poll_job ends within 150 requests.  It
\* returns exactly when a request is answered by an object with status
\* completed and raises "Processing failed" exactly when one is answered
\* with status failed; it raises "Lost connection" exactly when 5 transient
\* errors have occurred in a row; whatever the counters are, it ends at once
\* with the exception of the pass when client.get raises another httpx
\* error, when the answer has an error status, when the body is not JSON or
\* when the JSON is not an object, and with CancelledError when the call is
\* cancelled before its first step or where it waits; otherwise, after 150 requests, it raises the
\* timeout error.
C39_PollEndsAsEnumerated ==
    /\ PollTerminates
    /\ [](PollEnded =>
            /\ poll.outcome \in {COMPLETED, "Processing failed", "Lost connection",
                                  "Processing timed out", "AttributeError",
                                  "CancelledError"}
                                     \cup Range(Uncaught)
            /\ \A response \in DOMAIN Uncaught :
                  poll.outcome = Uncaught[response] <=> poll.response = response
            /\ poll.outcome = "AttributeError" <=> poll.response = "not_an_object"
            /\ poll.response = FAILED => poll.outcome = "Processing failed")
    /\ [][ poll'.outcome = "CancelledError" => PollCancelled ]_vars

\* C39 witness: the call made all of its requests, the last ones meeting
\* four transient errors in a row, one short of giving up, and raised the
\* timeout error.
C39_Witness ==
    /\ poll.outcome = "Processing timed out"
    /\ poll.rounds = POLL_TIMEOUT \div POLL_INTERVAL
    /\ poll.streak = MAX_POLL_RETRIES - 1
    /\ poll.response \in Transient

====
